---- MODULE Spec2Model ----
(***************************************************************************)
(* Kanban board: optimistic dispatch coordinator, operation queue,         *)
(* background synchronizer and three-way merge.                            *)
(*                                                                         *)
(* JavaScript objects are modelled as records whose DOMAIN is the set of   *)
(* keys that are present: a missing key is `undefined`, the spread         *)
(* {...a, ...b} is  b @@ a.  A possibly-null value is a sequence of        *)
(* length 0 (null / undefined) or 1.  Date.now() stamps (createdAt,        *)
(* lastModifiedAt, lastModified, timestamp) and initialState.isOnline      *)
(* take part in no decision of the modelled code and are left out of the   *)
(* records.                                                                *)
(***************************************************************************)
EXTENDS Integers, Sequences, FiniteSets, TLC

\* ------------------------------------------------------------------ bounds
MaxDispatch == 2
MaxSyncs == 2
MaxServerEdits == 1
MaxToggles == 1
MaxLists == 1
MaxQueued == 3
MaxDrains == 5
MaxVersion == 2
MaxMergeLists == 1
MaxChanges == 3
MaxCapacity == 3
MaxPushes == 2
MaxBatch == 2

\* ------------------------------------------------------- JavaScript values
Null == <<>>

Some(x) == <<x>>

Has(obj, key) == key \in DOMAIN obj

\* obj?.[key] as a possibly-undefined value
Get(obj, key) == IF Has(obj, key) THEN <<obj[key]>> ELSE <<>>

\* truthiness of a possibly-undefined boolean (state.syncing)
Truthy(m) == m # <<>> /\ m[1] = TRUE

\* a || dflt for a possibly-undefined number that is never 0 when defined
OrElse(m, dflt) == IF m = <<>> THEN dflt ELSE m[1]

\* array.map(f)
MapSeq(s, F(_)) == [i \in 1..Len(s) |-> F(s[i])]

\* array.find(e => e.id === id), as a possibly-undefined value
FindById(s, id) == LET hits == SelectSeq(s, LAMBDA e : e.id = id)
                   IN  IF hits = <<>> THEN <<>> ELSE <<hits[1]>>

\* array.filter(e => e.id !== id)
RemoveById(s, id) == SelectSeq(s, LAMBDA e : e.id # id)

\* copy.splice(index, 0, x) for index >= 0
SpliceIn_AtEnd(s, index, x) == Append(s, x)

SpliceIn(s, index, x) ==
    LET k == IF index > Len(s) THEN Len(s) ELSE index
    IN  SubSeq(s, 1, k) \o <<x>> \o SubSeq(s, k + 1, Len(s))

\* copy.splice(index, 1): the array without the element at 0-based index
SpliceOut(s, index) ==
    IF index < Len(s) THEN SubSeq(s, 1, index) \o SubSeq(s, index + 2, Len(s))
    ELSE s

\* the ids of the elements of an array
Ids(s) == {s[i].id : i \in 1..Len(s)}

\* --------------------------------------------------------- boardReducer.js
initialState ==
    [lists |-> <<>>, cards |-> <<>>, boardTitle |-> "My Kanban Board",
     syncing |-> FALSE, error |-> Null, previousState |-> Null,
     baseState |-> Null, conflicts |-> <<>>]

\* state.cards[listId] || []
CardsOf(cards, listId) == IF listId \in DOMAIN cards THEN cards[listId] ELSE <<>>

\* {...cards, [listId]: arr}
WithCards(cards, listId, arr) == (listId :> arr) @@ cards

\* the object without the key listId
WithoutKey(cards, listId) == [k \in (DOMAIN cards) \ {listId} |-> cards[k]]

\* version: (entity.version || 1) + 2
BumpVersion_SkipsOne(e) == OrElse(Get(e, "version"), 1) + 2

\* version: (entity.version || 1) + 1
BumpVersion(e) == OrElse(Get(e, "version"), 1) + 1

ADD_LIST(state, payload, gid) ==
    LET newList == [id |-> gid, title |-> payload.title,
                    order |-> Len(state.lists), archived |-> FALSE, version |-> 1]
    IN  [lists |-> Append(state.lists, newList),
         cards |-> WithCards(state.cards, gid, <<>>)] @@ state

RENAME_LIST(state, payload) ==
    [lists |-> MapSeq(state.lists, LAMBDA l :
        IF l.id = payload.listId
        THEN [title |-> payload.title, version |-> BumpVersion(l)] @@ l
        ELSE l)] @@ state

ARCHIVE_LIST(state, payload) ==
    [lists |-> MapSeq(state.lists, LAMBDA l :
        IF l.id = payload.listId
        THEN [archived |-> TRUE, version |-> BumpVersion(l)] @@ l
        ELSE l)] @@ state

RESTORE_LIST(state, payload) ==
    [lists |-> MapSeq(state.lists, LAMBDA l :
        IF l.id = payload.listId
        THEN [archived |-> FALSE, version |-> BumpVersion(l)] @@ l
        ELSE l)] @@ state

DELETE_LIST(state, payload) ==
    [lists |-> RemoveById(state.lists, payload.listId),
     cards |-> WithoutKey(state.cards, payload.listId)] @@ state

\* {id: generateId(), ...card, version: 1}: an id in the payload wins
ADD_CARD(state, payload, gid) ==
    LET newCard == [version |-> 1] @@ payload.card @@ [id |-> gid]
    IN  [cards |-> WithCards(state.cards, payload.listId,
                     Append(CardsOf(state.cards, payload.listId), newCard))] @@ state

\* the four card cases read state.cards[listId] without a default: they are
\* defined where that array is there, see ReducerThrows
UPDATE_CARD(state, payload) ==
    [cards |-> WithCards(state.cards, payload.listId,
        MapSeq(state.cards[payload.listId], LAMBDA card :
            IF card.id = payload.cardId
            THEN [version |-> BumpVersion(card)] @@ payload.updates @@ card
            ELSE card))] @@ state

DELETE_CARD(state, payload) ==
    [cards |-> WithCards(state.cards, payload.listId,
        RemoveById(state.cards[payload.listId], payload.cardId))] @@ state

\* destCards is a copy of the destination array of the state before: when
\* source and destination are one list the card is still in it
MOVE_CARD(state, payload) ==
    LET card == FindById(state.cards[payload.sourceListId], payload.cardId)
        sourceCards == RemoveById(state.cards[payload.sourceListId],
                                  payload.cardId)
        destCards == SpliceIn(CardsOf(state.cards, payload.destinationListId),
                              payload.destinationIndex, card[1])
    IN  IF card = Null THEN state
        ELSE [cards |-> WithCards(
                          WithCards(state.cards, payload.sourceListId,
                                    sourceCards),
                          payload.destinationListId, destCards)] @@ state

\* for startIndex and endIndex within the array
REORDER_CARD(state, payload) ==
    LET cards == state.cards[payload.listId]
        removed == cards[payload.startIndex + 1]
    IN  [cards |-> WithCards(state.cards, payload.listId,
            SpliceIn(SpliceOut(cards, payload.startIndex),
                     payload.endIndex, removed))] @@ state

\* state.cards[listId] is undefined and .map / .filter / .find / the spread
\* of it raises a TypeError
ReducerThrows(state, action) ==
    \/ /\ action.type \in {"UPDATE_CARD", "DELETE_CARD", "REORDER_CARD"}
       /\ ~Has(state.cards, action.payload.listId)
    \/ /\ action.type = "MOVE_CARD"
       /\ ~Has(state.cards, action.payload.sourceListId)

SYNC_START(state) ==
    [syncing |-> TRUE, error |-> Null,
     previousState |-> Some([lists |-> state.lists, cards |-> state.cards,
                             boardTitle |-> state.boardTitle])] @@ state

\* variant: the flag is cleared but the snapshot is kept
SYNC_SUCCESS_KeepsSnapshot(state) == [syncing |-> FALSE] @@ state

SYNC_SUCCESS(state) == [syncing |-> FALSE, previousState |-> Null] @@ state

SYNC_FAILURE(state, payload) ==
    [syncing |-> FALSE, error |-> Some(payload.error)] @@ state

\* variant: the card map of the snapshot is not put back
ROLLBACK_KeepsCards(state) ==
    IF Get(state, "previousState") = <<>> \/ state.previousState = Null
    THEN state
    ELSE [lists |-> state.previousState[1].lists,
          boardTitle |-> state.previousState[1].boardTitle,
          syncing |-> FALSE, previousState |-> Null] @@ state

ROLLBACK(state) ==
    IF Get(state, "previousState") = <<>> \/ state.previousState = Null
    THEN state
    ELSE [lists |-> state.previousState[1].lists,
          cards |-> state.previousState[1].cards,
          boardTitle |-> state.previousState[1].boardTitle,
          syncing |-> FALSE, previousState |-> Null] @@ state

CLEAR_ERROR(state) == [error |-> Null] @@ state

SET_CONFLICTS(state, payload) ==
    [conflicts |-> payload.conflicts, baseState |-> Some(payload.baseState),
     syncing |-> FALSE] @@ state

APPLY_MERGE(state, payload) ==
    [conflicts |-> <<>>, baseState |-> Null, syncing |-> FALSE]
        @@ payload.mergedState @@ state

\* conflicts.map: the conflict at the 0-based conflictIndex gets resolution
RESOLVE_CONFLICT(state, payload) ==
    [conflicts |-> [i \in DOMAIN state.conflicts |->
        IF i - 1 = payload.conflictIndex
        THEN [resolution |-> payload.resolution] @@ state.conflicts[i]
        ELSE state.conflicts[i]]] @@ state

\* {...action.payload, lastModified}: no key of the state is kept
LOAD_BOARD(state, payload) == payload

\* ------------------------------------------------------ utils/merge.js
Fields == <<"title", "description", "tags", "archived", "order">>

\* the array without repeated elements, first occurrences kept (new Set([...]))
RECURSIVE Dedup(_)
Dedup(s) ==
    IF s = <<>> THEN <<>>
    ELSE LET rest == Dedup(SubSeq(s, 1, Len(s) - 1))
             x == s[Len(s)]
         IN  IF \E i \in 1..Len(rest) : rest[i] = x THEN rest ELSE Append(rest, x)

\* concatenation of a sequence of sequences
RECURSIVE Flatten(_)
Flatten(ss) == IF ss = <<>> THEN <<>> ELSE ss[1] \o Flatten(Tail(ss))

\* base?.[field]
BaseValue(base, field) == IF base = <<>> THEN <<>> ELSE Get(base[1], field)

\* server.version < local.version (false when either is undefined)
VersionLess(a, b) ==
    Get(a, "version") # <<>> /\ Get(b, "version") # <<>> /\ a.version < b.version

\* the three JSON.stringify inequalities of the conflict test
FieldConflicts(base, local, server, field) ==
    /\ Get(local, field) # BaseValue(base, field)
    /\ Get(server, field) # BaseValue(base, field)
    /\ Get(local, field) # Get(server, field)

\* the else-branch: local changed, merged[field] = localValue
FieldTakesLocal(base, local, server, field) ==
    /\ ~FieldConflicts(base, local, server, field)
    /\ Get(local, field) # BaseValue(base, field)

threeWayMerge(base, local, server) ==
    IF Get(local, "version") = Get(server, "version")
    THEN [merged |-> local, conflicts |-> <<>>]
    ELSE IF VersionLess(server, local)
    THEN [merged |-> local, conflicts |-> <<>>]
    ELSE
      LET bad == SelectSeq(Fields, LAMBDA f : FieldConflicts(base, local, server, f))
          taken == {Fields[i] : i \in {j \in 1..Len(Fields) :
                        FieldTakesLocal(base, local, server, Fields[j])}}
          \* merged[field] = undefined leaves no value under the key
          keys == ((DOMAIN server) \ {f \in taken : ~Has(local, f)})
                      \cup {f \in taken : Has(local, f)}
      IN  [merged |-> [k \in keys |-> IF k \in taken THEN local[k] ELSE server[k]],
           conflicts |-> MapSeq(bad, LAMBDA f :
               [field |-> f, base |-> BaseValue(base, f),
                local |-> Get(local, f), server |-> Get(server, f)])]

\* baseState?.lists / baseState?.cards?.[listId] || []
BaseLists(baseState) ==
    IF baseState = <<>> \/ ~Has(baseState[1], "lists") THEN <<>> ELSE baseState[1].lists

BaseCards(baseState, listId) ==
    IF baseState = <<>> \/ ~Has(baseState[1], "cards") THEN <<>>
    ELSE CardsOf(baseState[1].cards, listId)

\* an entity on the local side only is taken for deleted on the server
MergeEntity_DropsLocalOnly(kind, extra, id, baseArr, localArr, serverArr) ==
    LET b == FindById(baseArr, id)
        l == FindById(localArr, id)
        s == FindById(serverArr, id)
    IN  IF l = <<>> \/ s = <<>> THEN [out |-> <<>>, conflicts |-> <<>>]
        ELSE LET m == threeWayMerge(b, l[1], s[1])
             IN  IF m.conflicts # <<>>
                 THEN [out |-> s,
                       conflicts |-> <<extra @@ [type |-> kind, id |-> id,
                                        conflicts |-> m.conflicts,
                                        local |-> l[1], server |-> s[1]]>>]
                 ELSE [out |-> <<m.merged>>, conflicts |-> <<>>]

\* one entity of the union: what it adds to the merged array and to conflicts
MergeEntity(kind, extra, id, baseArr, localArr, serverArr) ==
    LET b == FindById(baseArr, id)
        l == FindById(localArr, id)
        s == FindById(serverArr, id)
    IN  IF l = <<>> THEN [out |-> <<>>, conflicts |-> <<>>]
        ELSE IF s = <<>>
        THEN [out |-> IF b = <<>> THEN l ELSE <<>>, conflicts |-> <<>>]
        ELSE LET m == threeWayMerge(b, l[1], s[1])
             IN  IF m.conflicts # <<>>
                 THEN [out |-> s,
                       conflicts |-> <<extra @@ [type |-> kind, id |-> id,
                                        conflicts |-> m.conflicts,
                                        local |-> l[1], server |-> s[1]]>>]
                 ELSE [out |-> <<m.merged>>, conflicts |-> <<>>]

\* the Set of list ids of both sides, in insertion order
AllListIds(localState, serverState) ==
    Dedup(MapSeq(localState.lists, LAMBDA l : l.id)
          \o MapSeq(serverState.lists, LAMBDA l : l.id))

\* an array in the place of the Set: ids of both sides are there twice
AllCardIds_Array(localCards, serverCards) ==
    MapSeq(localCards, LAMBDA c : c.id) \o MapSeq(serverCards, LAMBDA c : c.id)

\* the Set of card ids of one list on both sides, in insertion order
AllCardIds(localCards, serverCards) ==
    Dedup(MapSeq(localCards, LAMBDA c : c.id) \o MapSeq(serverCards, LAMBDA c : c.id))

\* the two sides taken for one another: a card of the server side only is
\* taken for added locally
MergeCardsOfList_SidesSwapped(baseState, localState, serverState, listId) ==
    LET localCards == CardsOf(serverState.cards, listId)
        serverCards == CardsOf(localState.cards, listId)
        baseCards == BaseCards(baseState, listId)
        ids == AllCardIds(localCards, serverCards)
        each == MapSeq(ids, LAMBDA cid :
                  MergeEntity("card", [listId |-> listId], cid,
                              baseCards, localCards, serverCards))
    IN  [out |-> Flatten(MapSeq(each, LAMBDA r : r.out)),
         conflicts |-> Flatten(MapSeq(each, LAMBDA r : r.conflicts))]

MergeCardsOfList(baseState, localState, serverState, listId) ==
    LET localCards == CardsOf(localState.cards, listId)
        serverCards == CardsOf(serverState.cards, listId)
        baseCards == BaseCards(baseState, listId)
        ids == AllCardIds(localCards, serverCards)
        each == MapSeq(ids, LAMBDA cid :
                  MergeEntity("card", [listId |-> listId], cid,
                              baseCards, localCards, serverCards))
    IN  [out |-> Flatten(MapSeq(each, LAMBDA r : r.out)),
         conflicts |-> Flatten(MapSeq(each, LAMBDA r : r.conflicts))]

mergeBoardState(baseState, localState, serverState) ==
    LET ids == AllListIds(localState, serverState)
        eachList == MapSeq(ids, LAMBDA lid :
                      MergeEntity("list", <<>>, lid, BaseLists(baseState),
                                  localState.lists, serverState.lists))
        eachCards == MapSeq(ids, LAMBDA lid :
                      MergeCardsOfList(baseState, localState, serverState, lid))
        idSet == {ids[i] : i \in 1..Len(ids)}
        pos(lid) == CHOOSE i \in 1..Len(ids) : ids[i] = lid
    IN  [merged |->
            [lists |-> Flatten(MapSeq(eachList, LAMBDA r : r.out)),
             cards |-> [lid \in idSet |-> eachCards[pos(lid)].out],
             boardTitle |-> IF Has(serverState, "boardTitle")
                            THEN serverState.boardTitle ELSE localState.boardTitle],
         conflicts |-> Flatten(MapSeq(eachList, LAMBDA r : r.conflicts))
                       \o Flatten(MapSeq(eachCards, LAMBDA r : r.conflicts))]

\* --------------------------------------------------- services/syncQueue.js
\* keys whose value is a function: JSON.stringify leaves them out
FunctionKeys == {"apiCall"}

\* JSON.parse(JSON.stringify(obj)) of one queue item
JSONRoundTrip(obj) == [k \in (DOMAIN obj) \ FunctionKeys |-> obj[k]]

\* stored is the value under kanban_sync_queue: Null, or the parsed array
getSyncQueue(stored) == IF stored = Null THEN <<>> ELSE stored[1]

\* queue.unshift(queueItem) in the place of queue.push(queueItem)
addToSyncQueue_Unshift(stored, operation, itemId) ==
    LET queueItem == operation @@ [id |-> itemId]
    IN  Some(MapSeq(<<queueItem>> \o getSyncQueue(stored), JSONRoundTrip))

\* the stored value after addToSyncQueue(operation); itemId is the fresh id
addToSyncQueue(stored, operation, itemId) ==
    LET queueItem == operation @@ [id |-> itemId]
    IN  Some(MapSeq(Append(getSyncQueue(stored), queueItem), JSONRoundTrip))

removeFromSyncQueue(stored, itemId) ==
    Some(SelectSeq(getSyncQueue(stored), LAMBDA item : item.id # itemId))

\* ------------------------------------------------------- mocks/handlers.js
emptyBoard == [lists |-> <<>>, cards |-> <<>>]

\* index of the entity with the id, 0 when findIndex gives -1
IndexOf(s, id) == IF \E i \in 1..Len(s) : s[i].id = id
                  THEN CHOOSE i \in 1..Len(s) :
                         s[i].id = id /\ \A j \in 1..(i - 1) : s[j].id # id
                  ELSE 0

\* clientVersion && existing.version && clientVersion < existing.version
VersionConflict(updates, existing) == VersionLess(updates, existing)

PostList(board, list) ==
    [status |-> 200,
     board |-> [lists |-> Append(board.lists, list),
                cards |-> WithCards(board.cards, list.id, <<>>)] @@ board]

PutList(board, listId, updates) ==
    LET index == IndexOf(board.lists, listId)
    IN  IF index = 0 THEN [status |-> 404, board |-> board]
        ELSE IF VersionConflict(updates, board.lists[index])
        THEN [status |-> 409, board |-> board]
        ELSE [status |-> 200,
              board |-> [lists |-> [board.lists EXCEPT ![index] =
                           [version |-> BumpVersion(@)] @@ updates @@ @]] @@ board]

PostCard(board, listId, card) ==
    [status |-> 200,
     board |-> [cards |-> WithCards(board.cards, listId,
                            Append(CardsOf(board.cards, listId), card))] @@ board]

PutCard(board, listId, cardId, updates) ==
    LET cards == CardsOf(board.cards, listId)
        index == IndexOf(cards, cardId)
    IN  IF ~(listId \in DOMAIN board.cards) \/ index = 0
        THEN [status |-> 404, board |-> board]
        ELSE IF VersionConflict(updates, cards[index])
        THEN [status |-> 409, board |-> board]
        ELSE [status |-> 200,
              board |-> [cards |-> WithCards(board.cards, listId,
                           [cards EXCEPT ![index] =
                              [version |-> BumpVersion(@)] @@ updates @@ @])] @@ board]

\* the handler a request of services/api.js reaches
Handle(board, call) ==
    CASE call.op = "addList" -> PostList(board, call.list)
      [] call.op = "updateList" -> PutList(board, call.listId, call.updates)
      [] call.op = "addCard" -> PostCard(board, call.listId, call.card)
      [] call.op = "updateCard" ->
            PutCard(board, call.listId, call.cardId, call.updates)

\* ---------------------------------------------------------- services/api.js
\* statuses a request can end with whatever the handler would do: 500 from
\* shouldFail(), 0 when fetch itself rejects, 409 from the remote authority
\* for an update of an existing entity
InjectedStatuses(call) ==
    {500, 0} \cup (IF call.op \in {"updateList", "updateCard"} THEN {409} ELSE {})

\* data.error of the response with a status that is not ok
ResponseError(call, status) ==
    CASE status = 409 -> "Version conflict"
      [] status = 404 /\ call.op = "updateList" -> "List not found"
      [] status = 404 /\ call.op = "updateCard" -> "Card not found"
      [] status = 500 /\ call.op = "addList" -> "Failed to create list"
      [] status = 500 /\ call.op = "updateList" -> "Failed to update list"
      [] status = 500 /\ call.op = "addCard" -> "Failed to create card"
      [] status = 500 /\ call.op = "updateCard" -> "Failed to update card"

\* error.message of the ApiError that fetchWithError throws
ErrorMessage(call, status) ==
    IF status = 0 THEN "Network request failed"
    ELSE ResponseError(call, status)

\* ------------------------------------------------ boardReducer (dispatcher)
\* gid is the value generateId() returns inside the reducer
boardReducer(state, action, gid) ==
    CASE action.type = "ADD_LIST" -> ADD_LIST(state, action.payload, gid)
      [] action.type = "RENAME_LIST" -> RENAME_LIST(state, action.payload)
      [] action.type = "ARCHIVE_LIST" -> ARCHIVE_LIST(state, action.payload)
      [] action.type = "RESTORE_LIST" -> RESTORE_LIST(state, action.payload)
      [] action.type = "DELETE_LIST" -> DELETE_LIST(state, action.payload)
      [] action.type = "ADD_CARD" -> ADD_CARD(state, action.payload, gid)
      [] action.type = "UPDATE_CARD" -> UPDATE_CARD(state, action.payload)
      [] action.type = "DELETE_CARD" -> DELETE_CARD(state, action.payload)
      [] action.type = "MOVE_CARD" -> MOVE_CARD(state, action.payload)
      [] action.type = "REORDER_CARD" -> REORDER_CARD(state, action.payload)
      [] action.type = "SYNC_START" -> SYNC_START(state)
      [] action.type = "SYNC_SUCCESS" -> SYNC_SUCCESS(state)
      [] action.type = "SYNC_FAILURE" -> SYNC_FAILURE(state, action.payload)
      [] action.type = "ROLLBACK" -> ROLLBACK(state)
      [] action.type = "CLEAR_ERROR" -> CLEAR_ERROR(state)
      [] action.type = "SET_CONFLICTS" -> SET_CONFLICTS(state, action.payload)
      [] action.type = "APPLY_MERGE" -> APPLY_MERGE(state, action.payload)
      [] action.type = "LOAD_BOARD" -> LOAD_BOARD(state, action.payload)
      [] action.type = "RESOLVE_CONFLICT" ->
            RESOLVE_CONFLICT(state, action.payload)
      [] OTHER -> state

\* dispatch of an action that needs no generated id
Reduce(state, type, payload) ==
    boardReducer(state, [type |-> type, payload |-> payload], 0)

\* ------------------------------------------------- BoardProvider: the state
VARIABLES
    state,          \* the reducer state of useReducer
    baseStateRef,   \* baseStateRef.current
    onLine,         \* navigator.onLine
    stored,         \* localStorage value under kanban_sync_queue
    mockBoard,      \* the document of the remote authority
    ops,            \* dispatchWithOptimistic calls suspended at await apiCall()
    cycles,         \* performSync calls suspended at await api.getBoard()
    nextId,         \* source of generateId() and of queue item ids
    dispatched,     \* dispatchWithOptimistic calls made so far
    started,        \* performSync calls that passed the guard so far
    serverEdits,    \* writes of other clients so far
    toggles,        \* online / offline events so far
    retryCountRef,  \* useOfflineSync: retryCountRef.current
    queuedOps,      \* history: the calls that took the offline branch
    history,        \* useUndoRedo: the stack of snapshots
    currentIndex,   \* useUndoRedo: the pointer into the stack, from 0
    isNavigatingRef,\* useUndoRedo: isNavigatingRef.current
    timeouts,       \* useUndoRedo: setTimeout callbacks not run yet
    rendered,       \* useUndoRedo: what the last render gave the callbacks
    maxHistorySize, \* useUndoRedo: the capacity the hook was called with
    resolutions,    \* ConflictResolutionModal: the choices of useState({})
    last            \* history: the handler or continuation that ran last

\* the state of the hook and of the components under the provider
componentVars == <<history, currentIndex, isNavigatingRef, timeouts, rendered,
                   maxHistorySize, resolutions>>

vars == <<state, baseStateRef, onLine, stored, mockBoard, ops, cycles, nextId,
          dispatched, started, serverEdits, toggles, retryCountRef, queuedOps,
          componentVars, last>>

\* maxHistorySize = 50, the default of the second argument of useUndoRedo
defaultMaxHistorySize == 50

\* no component calls useUndoRedo: the hook has no state
NotMounted ==
    /\ history = <<>>
    /\ currentIndex = 0
    /\ isNavigatingRef = FALSE
    /\ timeouts = 0
    /\ rendered = Null
    /\ maxHistorySize = defaultMaxHistorySize
    /\ resolutions = <<>>

\* titles the user types: one per dispatch, so that a rename is recognisable
ListTitle == "T"

CardTitle == "C"

RenameTitles == <<"A", "B", "D", "E">>

OtherClientTitle == "S"

\* navigator.onLine is whatever the browser reports when the provider mounts;
\* nothing is persisted yet, so useReducer starts from initialState
Init ==
    /\ state = initialState
    /\ baseStateRef = Null
    /\ onLine \in BOOLEAN
    /\ stored = Null
    /\ mockBoard = emptyBoard
    /\ ops = <<>>
    /\ cycles = <<>>
    /\ nextId = 1
    /\ dispatched = 0
    /\ started = 0
    /\ serverEdits = 0
    /\ toggles = 0
    /\ NotMounted
    /\ retryCountRef = 0
    /\ queuedOps = <<>>
    /\ last = [event |-> "init"]

\* the fields of the rendered state that the closures of performSync and
\* dispatchWithOptimistic read
ClosureKeys == {"lists", "cards", "boardTitle", "syncing", "conflicts"}

Closure(st) == [k \in (DOMAIN st) \cap ClosureKeys |-> st[k]]

\* f without the key k
Drop(f, k) == [j \in (DOMAIN f) \ {k} |-> f[j]]

\* ------------------------------------------------------------- performSync
\* state.conflicts.length of a state without conflicts is a TypeError, unless
\* state.syncing already decided the guard
SyncThrows(closure) ==
    ~Truthy(Get(closure, "syncing")) /\ ~Has(closure, "conflicts")

\* the guard of performSync, on the state its closure captured
SyncSkipped(closure) ==
    Truthy(Get(closure, "syncing")) \/ Len(closure.conflicts) > 0

\* cycles after a call of performSync() whose closure captured `closure`;
\* applied is history: the handleApplyAll that ran right before the call
CyclesAfterPerformSync(closure, trigger, byOp) ==
    IF SyncSkipped(closure) THEN cycles
    ELSE (started + 1 :> [closure |-> closure, trigger |-> trigger,
                          byOp |-> byOp, during |-> {}, undone |-> {},
                          applied |-> IF last.event = "applyAll"
                                      THEN Some(last) ELSE Null])
             @@ cycles

StartedAfterPerformSync(closure) ==
    IF SyncSkipped(closure) THEN started ELSE started + 1

\* performSync may be called only while the model can still record a cycle
CanCallPerformSync(closure) == SyncSkipped(closure) \/ started < MaxSyncs

\* ------------------------------------------------- dispatchWithOptimistic
\* what a mutation writes, for recognising it in a document later
Effect(action, gid) ==
    CASE action.type = "ADD_LIST" -> [type |-> "ADD_LIST", id |-> gid]
      [] action.type = "ADD_CARD" ->
            [type |-> "ADD_CARD", id |-> action.payload.card.id,
             listId |-> action.payload.listId]
      [] action.type = "RENAME_LIST" ->
            [type |-> "RENAME_LIST", id |-> action.payload.listId,
             title |-> action.payload.title]

\* the document shows what the mutation wrote
EffectPresent(doc, e) ==
    CASE e.type = "ADD_LIST" -> e.id \in Ids(doc.lists)
      [] e.type = "ADD_CARD" -> e.id \in Ids(CardsOf(doc.cards, e.listId))
      [] e.type = "RENAME_LIST" ->
            \E k \in 1..Len(doc.lists) :
                doc.lists[k].id = e.id /\ doc.lists[k].title = e.title

\* a later rename of the same list replaces what an earlier rename wrote
Supersedes(e, old) ==
    e.type = "RENAME_LIST" /\ old.type = "RENAME_LIST" /\ e.id = old.id

\* the synchronous part of dispatchWithOptimistic(action, apiCall): up to
\* the return of the offline branch, or up to the await of apiCall()
DispatchWithOptimistic(action, call, gid, itemId) ==
    LET applied == boardReducer(Reduce(state, "SYNC_START", <<>>), action, gid)
        queued == Reduce(applied, "SYNC_SUCCESS", <<>>)
        me == dispatched + 1
        eff == Effect(action, gid)
        rec == [action |-> action, call |-> call, closure |-> Closure(state),
                effect |-> eff, first |-> DOMAIN ops = {},
                solo |-> DOMAIN ops = {}, sawFail |-> {},
                mergedSince |-> FALSE, superseded |-> FALSE]
        others == [j \in DOMAIN ops |->
                     [ops[j] EXCEPT !.solo = FALSE,
                        !.superseded = @ \/ Supersedes(eff, ops[j].effect)]]
        olderQueued == [k \in DOMAIN queuedOps |->
                     [queuedOps[k] EXCEPT
                        !.superseded = @ \/ Supersedes(eff, queuedOps[k].effect)]]
    IN  /\ dispatched < MaxDispatch
        /\ dispatched' = me
        /\ IF ~onLine
           THEN /\ stored' = addToSyncQueue(stored,
                               [action |-> action, apiCall |-> call], itemId)
                /\ state' = queued
                /\ ops' = others
                /\ queuedOps' = Append(olderQueued,
                                  [effect |-> eff, mergedSince |-> FALSE,
                                   superseded |-> FALSE, item |-> itemId,
                                   failures |-> 0, call |-> call])
                /\ last' = [event |-> "queued", effect |-> eff,
                            action |-> action, itemId |-> itemId,
                            queueBefore |-> getSyncQueue(stored),
                            callsBefore |-> DOMAIN ops]
           ELSE /\ stored' = stored
                /\ state' = applied
                /\ ops' = (me :> rec) @@ others
                /\ queuedOps' = olderQueued
                /\ last' = [event |-> "dispatched"]
        /\ cycles' = [c \in DOMAIN cycles |->
                        [cycles[c] EXCEPT !.during = @ \cup {eff}]]
        /\ UNCHANGED <<retryCountRef, baseStateRef, onLine, mockBoard, started, serverEdits,
                   toggles, componentVars>>

\* Board.handleAddList: the list sent to the server gets an id of its own
HandleAddList ==
    /\ Len(state.lists) < MaxLists
    /\ nextId' = nextId + 3
    /\ DispatchWithOptimistic(
         [type |-> "ADD_LIST", payload |-> [title |-> ListTitle]],
         [op |-> "addList",
          list |-> [id |-> nextId, title |-> ListTitle,
                    order |-> Len(state.lists), archived |-> FALSE]],
         nextId + 1, nextId + 2)

\* ListColumn.handleRenameList of a rendered (not archived) list
HandleRenameList ==
    \E k \in 1..Len(state.lists) :
        LET list == state.lists[k]
            title == RenameTitles[dispatched + 1]
        IN  /\ ~list.archived
            /\ title # list.title
            /\ nextId' = nextId + 1
            /\ DispatchWithOptimistic(
                 [type |-> "RENAME_LIST",
                  payload |-> [listId |-> list.id, title |-> title]],
                 [op |-> "updateList", listId |-> list.id,
                  updates |-> [title |-> title]],
                 0, nextId)

\* ListColumn.handleAddCard of a rendered (not archived) list
HandleAddCard ==
    \E k \in 1..Len(state.lists) :
        LET list == state.lists[k]
            newCard == [id |-> nextId, title |-> CardTitle,
                        description |-> "", tags |-> <<>>]
        IN  /\ ~list.archived
            /\ nextId' = nextId + 3
            /\ DispatchWithOptimistic(
                 [type |-> "ADD_CARD",
                  payload |-> [listId |-> list.id, card |-> newCard]],
                 [op |-> "addCard", listId |-> list.id, card |-> newCard],
                 nextId + 1, nextId + 2)

\* what the remote authority can answer to the request of a call: the
\* handler's own answer, or one of the injected statuses
Answers(call) ==
    {[status |-> st, board |-> mockBoard] : st \in InjectedStatuses(call)}
        \cup {Handle(mockBoard, call)}

\* the request of call i is answered and the continuation of
\* dispatchWithOptimistic after await apiCall() runs
OpReturn(i) ==
    /\ i \in DOMAIN ops
    /\ \E r \in Answers(ops[i].call) :
        LET o == ops[i]
            ok == Reduce(state, "SYNC_SUCCESS", <<>>)
            failed == Reduce(Reduce(state, "SYNC_FAILURE",
                                    [error |-> ErrorMessage(o.call, r.status)]),
                             "ROLLBACK", <<>>)
        IN  /\ mockBoard' = r.board
            /\ IF r.status = 200
               THEN /\ state' = ok
                    /\ ops' = Drop(ops, i)
                    /\ baseStateRef' = Some(o.closure)
                    /\ cycles' = cycles
                    /\ started' = started
                    /\ last' = [event |-> "committed", effect |-> o.effect,
                                sawFail |-> o.sawFail,
                                mergedSince |-> o.mergedSince,
                                superseded |-> o.superseded]
               ELSE IF r.status = 409
               THEN /\ CanCallPerformSync(o.closure)
                    /\ state' = state
                    /\ ops' = Drop(ops, i)
                    /\ baseStateRef' = baseStateRef
                    /\ cycles' = CyclesAfterPerformSync(o.closure, "conflict",
                                                        Some([effect |-> o.effect, solo |-> o.solo]))
                    /\ started' = StartedAfterPerformSync(o.closure)
                    /\ last' = [event |-> "conflicted", effect |-> o.effect,
                                sawFail |-> o.sawFail,
                                skipped |-> SyncSkipped(o.closure)]
               ELSE /\ state' = failed
                    /\ ops' = [j \in (DOMAIN ops) \ {i} |->
                                 IF o.first
                                 THEN [ops[j] EXCEPT !.sawFail = @ \cup {o.effect}]
                                 ELSE ops[j]]
                    /\ baseStateRef' = baseStateRef
                    /\ cycles' = [c \in DOMAIN cycles |->
                                    [cycles[c] EXCEPT !.undone = @ \cup {o.effect}]]
                    /\ started' = started
                    /\ last' = [event |-> "failed", effect |-> o.effect,
                                action |-> o.action, sawFail |-> o.sawFail,
                                status |-> r.status, solo |-> o.solo,
                                message |-> ErrorMessage(o.call, r.status),
                                first |-> o.first,
                                before |-> [lists |-> o.closure.lists,
                                            cards |-> o.closure.cards,
                                            boardTitle |-> o.closure.boardTitle]]
    /\ UNCHANGED <<retryCountRef, onLine, stored, nextId, dispatched, serverEdits, toggles, componentVars,
                   queuedOps>>

\* ------------------------------------------------ performSync: the triggers
\* setInterval callback: if (navigator.onLine) performSync()
TimerSync ==
    /\ onLine
    /\ started < MaxSyncs
    \* a call that returns at the guard changes nothing
    /\ ~SyncSkipped(state)
    /\ cycles' = CyclesAfterPerformSync(Closure(state), "timer", Null)
    /\ started' = StartedAfterPerformSync(state)
    /\ last' = [event |-> "timer"]
    /\ UNCHANGED <<retryCountRef, state, baseStateRef, onLine, stored, mockBoard, ops, nextId,
                   dispatched, serverEdits, toggles, componentVars, queuedOps>>

\* window 'online' event: handleOnline
GoOnline ==
    /\ ~onLine
    /\ toggles < MaxToggles
    /\ CanCallPerformSync(state)
    /\ onLine' = TRUE
    /\ toggles' = toggles + 1
    /\ UNCHANGED componentVars
    /\ state' = Reduce(state, "CLEAR_ERROR", <<>>)
    /\ cycles' = CyclesAfterPerformSync(Closure(state), "online", Null)
    /\ started' = StartedAfterPerformSync(state)
    /\ last' = [event |-> "online"]
    /\ UNCHANGED <<retryCountRef, baseStateRef, stored, mockBoard, ops, nextId, dispatched,
                   serverEdits, queuedOps>>

\* window 'offline' event: handleOffline
GoOffline ==
    /\ onLine
    /\ toggles < MaxToggles
    /\ onLine' = FALSE
    /\ toggles' = toggles + 1
    /\ UNCHANGED componentVars
    /\ state' = Reduce(state, "SYNC_FAILURE",
          [error |-> "You are offline. Changes will sync when reconnected."])
    /\ last' = [event |-> "offline"]
    /\ UNCHANGED <<retryCountRef, baseStateRef, stored, mockBoard, ops, cycles, nextId,
                   dispatched, started, serverEdits, queuedOps>>

\* --------------------------------------------- performSync: fetch and merge
\* item.apiCall() of the drain loop: a TypeError unless the item has the key
DrainOutcome(item) == IF Has(item, "apiCall") THEN "invoked" ELSE "TypeError"

\* the drain loop over queue = getSyncQueue(): per item, its id, the ids still
\* in the queue when its call is evaluated, and what the evaluation does
DrainAttempts(queue) ==
    [k \in 1..Len(queue) |->
        [item |-> queue[k].id,
         inQueue |-> MapSeq(queue, LAMBDA it : it.id),
         outcome |-> DrainOutcome(queue[k])]]

\* the history of the queued calls after a drain over queue: one more failed
\* invocation for every item whose evaluation threw (counted up to MaxDrains)
FailuresAfterDrain(recorded, queue) ==
    LET attempts == DrainAttempts(queue)
        threw == {attempts[k].item : k \in {j \in DOMAIN attempts :
                                     attempts[j].outcome = "TypeError"}}
    IN  [k \in DOMAIN recorded |->
            IF recorded[k].item \in threw
            THEN [recorded[k] EXCEPT
                    !.failures = IF @ < MaxDrains THEN @ + 1 ELSE @]
            ELSE recorded[k]]

AfterFetchFailure_ReportsError(st) ==
    Reduce(st, "SYNC_FAILURE", [error |-> "Sync failed"])

\* the outer catch of performSync: the state after api.getBoard() threw
AfterFetchFailure(st) == st

\* GET /api/board is answered with the document or the request fails, and
\* the continuation of performSync after await api.getBoard() runs
SyncReturn(c) ==
    /\ c \in DOMAIN cycles
    /\ \E response \in {Null, Some(mockBoard)} :
       LET cy == cycles[c]
           base == IF baseStateRef # Null THEN baseStateRef ELSE Some(cy.closure)
           m == mergeBoardState(base, cy.closure, response[1])
           published == Reduce(state, "SET_CONFLICTS",
                          [conflicts |-> m.conflicts, baseState |-> response[1]])
           applied == Reduce(state, "APPLY_MERGE", [mergedState |-> m.merged])
           queue == getSyncQueue(stored)
       IN  IF response = Null
           THEN \* api.getBoard() threw: the outer catch, nothing is dispatched
                /\ state' = AfterFetchFailure(state)
                /\ last' = [event |-> "syncFailed", trigger |-> cy.trigger,
                            before |-> [state |-> state,
                                        baseStateRef |-> baseStateRef,
                                        stored |-> stored]]
                /\ UNCHANGED <<baseStateRef, ops, queuedOps>>
           ELSE IF Len(m.conflicts) > 0
           THEN /\ state' = published
                /\ baseStateRef' = baseStateRef
                /\ ops' = ops
                /\ queuedOps' = FailuresAfterDrain(queuedOps, queue)
                /\ last' = [event |-> "syncPublished", trigger |-> cy.trigger,
                            byOp |-> cy.byOp, during |-> cy.during,
                            undone |-> cy.undone,
                            before |-> [lists |-> state.lists,
                                        cards |-> state.cards],
                            applied |-> cy.applied,
                            attempts |-> DrainAttempts(queue)]
           ELSE /\ state' = applied
                /\ baseStateRef' = Some(m.merged)
                /\ ops' = [j \in DOMAIN ops |->
                             [ops[j] EXCEPT !.mergedSince = TRUE]]
                /\ queuedOps' = FailuresAfterDrain(
                                  [k \in DOMAIN queuedOps |->
                                     [queuedOps[k] EXCEPT
                                        !.mergedSince = TRUE]], queue)
                /\ last' = [event |-> "syncApplied", trigger |-> cy.trigger,
                            byOp |-> cy.byOp, during |-> cy.during,
                            undone |-> cy.undone,
                            attempts |-> DrainAttempts(queue)]
    /\ cycles' = Drop(cycles, c)
    \* every item of the drain throws before its await: none is removed
    /\ stored' = stored
    /\ UNCHANGED <<retryCountRef, onLine, mockBoard, nextId, dispatched, started, serverEdits,
                   toggles, componentVars>>

\* ------------------------------------------------------------ environment
\* another client renames a card through PUT /api/cards/:cardId
OtherClientUpdateCard ==
    /\ serverEdits < MaxServerEdits
    /\ \E listId \in DOMAIN mockBoard.cards :
         \E k \in 1..Len(mockBoard.cards[listId]) :
            LET r == Handle(mockBoard,
                       [op |-> "updateCard", listId |-> listId,
                        cardId |-> mockBoard.cards[listId][k].id,
                        updates |-> [title |-> OtherClientTitle]])
            IN  /\ r.status = 200
                /\ mockBoard' = r.board
    /\ serverEdits' = serverEdits + 1
    /\ last' = [event |-> "otherClient"]
    /\ UNCHANGED <<retryCountRef, state, baseStateRef, onLine, stored, ops, cycles, nextId,
                   dispatched, started, toggles, componentVars, queuedOps>>

Next ==
    \/ HandleAddList
    \/ HandleRenameList
    \/ HandleAddCard
    \/ \E i \in 1..MaxDispatch : OpReturn(i)
    \/ TimerSync
    \/ GoOnline
    \/ GoOffline
    \/ \E c \in 1..MaxSyncs : SyncReturn(c)
    \/ OtherClientUpdateCard

Spec == Init /\ [][Next]_vars

\* the provider before the 45 s interval fires for the first time: every
\* handler and continuation but the setInterval callback
BeforeTimerNext ==
    \/ HandleAddList
    \/ HandleRenameList
    \/ HandleAddCard
    \/ \E i \in 1..MaxDispatch : OpReturn(i)
    \/ GoOnline
    \/ GoOffline
    \/ \E c \in 1..MaxSyncs : SyncReturn(c)
    \/ OtherClientUpdateCard

BeforeTimerSpec == Init /\ [][BeforeTimerNext]_vars

\* ------------------------------------------- components/CardDetailModal.jsx
SavedTitle == "A"

\* what a handler of the modal leaves behind: the plain dispatch of action
ModalDispatch(action) ==
    /\ state' = boardReducer(state, action, 0)
    /\ last' = [event |-> "modal", action |-> action, online |-> onLine,
                callsBefore |-> DOMAIN ops,
                queueBefore |-> getSyncQueue(stored)]
    /\ UNCHANGED <<retryCountRef, baseStateRef, onLine, stored, mockBoard,
                   ops, cycles, nextId, dispatched, started, serverEdits,
                   toggles, componentVars, queuedOps>>

\* handleSave of the modal of a rendered card, with an edited title
HandleSave ==
    \E listId \in DOMAIN state.cards :
    \E k \in DOMAIN state.cards[listId] :
        LET card == state.cards[listId][k]
        IN  /\ OrElse(Get(card, "version"), 1) < MaxVersion
            /\ ModalDispatch(
                 [type |-> "UPDATE_CARD",
                  payload |-> [listId |-> listId, cardId |-> card.id,
                               updates |-> [title |-> SavedTitle,
                                            description |-> card.description,
                                            tags |-> card.tags]]])

\* handleDelete of the modal of a rendered card, confirmed
HandleDelete ==
    \E listId \in DOMAIN state.cards :
    \E k \in DOMAIN state.cards[listId] :
        ModalDispatch([type |-> "DELETE_CARD",
                       payload |-> [listId |-> listId,
                                    cardId |-> state.cards[listId][k].id]])

\* the provider with the card modal, before the interval fires
ModalNext ==
    \/ HandleAddList
    \/ HandleAddCard
    \/ HandleSave
    \/ HandleDelete
    \/ \E i \in 1..MaxDispatch : OpReturn(i)
    \/ GoOnline
    \/ GoOffline
    \/ \E c \in 1..MaxSyncs : SyncReturn(c)

ModalSpec == Init /\ [][ModalNext]_vars

\* ----------------------------------- components/ConflictResolutionModal.jsx
Choices == {"local", "server"}

\* resolutions[index] || 'server'
ResolutionOf(res, index) ==
    IF index \in DOMAIN res THEN res[index] ELSE "server"

\* resolution === 'local' ? conflict.local : conflict.server
Chosen(conflict, resolution) ==
    IF resolution = "local" THEN conflict.local ELSE conflict.server

\* one turn of conflicts.forEach on newLists and newCards
ApplyResolution(doc, conflict, resolution) ==
    IF conflict.type = "list"
    THEN LET listIndex == IndexOf(doc.lists, conflict.id)
         IN  IF listIndex = 0 THEN doc
             ELSE [doc EXCEPT !.lists[listIndex] = Chosen(conflict, resolution)]
    ELSE LET cards == CardsOf(doc.cards, conflict.listId)
             cardIndex == IndexOf(cards, conflict.id)
         IN  IF cardIndex = 0 THEN doc
             ELSE [doc EXCEPT !.cards = WithCards(doc.cards, conflict.listId,
                     [cards EXCEPT ![cardIndex] = Chosen(conflict, resolution)])]

\* newLists and newCards after the forEach over the first n conflicts
RECURSIVE ResolvedDocument(_, _, _, _)
ResolvedDocument(doc, conflicts, res, n) ==
    IF n = 0 THEN doc
    ELSE ApplyResolution(ResolvedDocument(doc, conflicts, res, n - 1),
                         conflicts[n], ResolutionOf(res, n - 1))

\* a handler of the modal ran: the provider's refs and calls are as before
ModalUnchanged ==
    UNCHANGED <<retryCountRef, baseStateRef, onLine, stored, mockBoard, ops,
                cycles, nextId, dispatched, started, serverEdits, toggles,
                queuedOps, history, currentIndex, isNavigatingRef, timeouts,
                rendered, maxHistorySize>>

\* a click on one version of the conflict at index, while the modal shows
HandleResolve ==
    /\ Has(state, "conflicts")
    /\ \E index \in 0..(Len(state.conflicts) - 1) : \E choice \in Choices :
          /\ resolutions' = (index :> choice) @@ resolutions
          /\ state' = Reduce(state, "RESOLVE_CONFLICT",
                        [conflictIndex |-> index, resolution |-> choice])
          /\ last' = [event |-> "resolve", index |-> index, choice |-> choice]
    /\ ModalUnchanged

\* a click on the button that applies the resolutions, while the modal shows
HandleApplyAll ==
    /\ Has(state, "conflicts")
    /\ Len(state.conflicts) > 0
    /\ LET doc == ResolvedDocument([lists |-> state.lists, cards |-> state.cards],
                                   state.conflicts, resolutions,
                                   Len(state.conflicts))
       IN  state' = Reduce(state, "APPLY_MERGE", [mergedState |-> doc])
    /\ last' = [event |-> "applyAll", before |-> state,
                resolutions |-> resolutions, server |-> mockBoard]
    /\ UNCHANGED resolutions
    /\ ModalUnchanged

\* the provider with the conflict modal under it
ConflictNext ==
    \/ HandleAddList
    \/ HandleRenameList
    \/ HandleAddCard
    \/ \E i \in 1..MaxDispatch : OpReturn(i)
    \/ TimerSync
    \/ GoOnline
    \/ GoOffline
    \/ \E c \in 1..MaxSyncs : SyncReturn(c)
    \/ OtherClientUpdateCard
    \/ HandleResolve
    \/ HandleApplyAll

ConflictSpec == Init /\ [][ConflictNext]_vars

\* the provider while the requests of its online calls are pending, with
\* the interval firing up to MaxDrains times
RetryTimer ==
    /\ onLine
    /\ started < MaxDrains
    /\ ~SyncSkipped(state)
    /\ cycles' = CyclesAfterPerformSync(Closure(state), "timer", Null)
    /\ started' = StartedAfterPerformSync(state)
    /\ last' = [event |-> "timer"]
    /\ UNCHANGED <<retryCountRef, state, baseStateRef, onLine, stored,
                   mockBoard, ops, nextId, dispatched, serverEdits, toggles, componentVars,
                   queuedOps>>

RetryNext ==
    \/ HandleAddList
    \/ HandleRenameList
    \/ HandleAddCard
    \/ RetryTimer
    \/ GoOnline
    \/ GoOffline
    \/ \E c \in 1..MaxDrains : SyncReturn(c)

RetrySpec == Init /\ [][RetryNext]_vars

\* the provider with its scheduling.  The interval fires for ever: a firing
\* that finds no cycle in flight starts one without counting it, under the
\* key that is free after the counted ones.
LoopTimer ==
    /\ onLine
    /\ cycles = <<>>
    /\ ~SyncSkipped(state)
    /\ cycles' = CyclesAfterPerformSync(Closure(state), "timer", Null)
    /\ last' = [event |-> "timer"]
    /\ UNCHANGED <<retryCountRef, state, baseStateRef, onLine, stored,
                   mockBoard, ops, nextId, dispatched, started, serverEdits,
                   toggles, componentVars, queuedOps>>

LoopNext ==
    \/ HandleAddList
    \/ HandleRenameList
    \/ HandleAddCard
    \/ \E i \in 1..MaxDispatch : OpReturn(i)
    \/ LoopTimer
    \/ GoOnline
    \/ GoOffline
    \/ \E c \in 1..(MaxSyncs + 1) : SyncReturn(c)
    \/ OtherClientUpdateCard

\* an interval that is due fires, and a request that was sent is answered
\* and its continuation runs
FairLoopSpec ==
    /\ Init /\ [][LoopNext]_vars
    /\ WF_vars(LoopTimer)
    /\ \A i \in 1..MaxDispatch : WF_vars(OpReturn(i))
    /\ \A c \in 1..(MaxSyncs + 1) : WF_vars(SyncReturn(c))

\* ------------------------------------------------- hooks/useOfflineSync.js
maxRetries == 3

QueuedActions == {"ADD_LIST", "ADD_CARD"}

\* the provider's variables, which no callback of the hook touches
providerVars == <<state, baseStateRef, mockBoard, ops, cycles, dispatched,
                  started, serverEdits, queuedOps>>

\* the for loop of processSyncQueue from item k of queue = getSyncQueue()
\* on: st is the stored value and rc is retryCountRef.current when item k
\* is reached, answers[k] tells whether the call of item k resolves.  The
\* result is the stored value and the counter at the end of the loop, the
\* record of what was done with each item, and whether the loop threw.
RECURSIVE ProcessFrom(_, _, _, _, _)
ProcessFrom(queue, k, st, rc, answers) ==
    IF k > Len(queue)
    THEN [stored |-> st, retryCountRef |-> rc, log |-> <<>>, threw |-> FALSE]
    ELSE LET item == queue[k]
             invoked == Has(item, "apiCall")
             entry == [item |-> item.id, invoked |-> invoked,
                       succeeded |-> invoked /\ answers[k],
                       retries |-> rc, removed |-> TRUE,
                       after |-> getSyncQueue(
                                   removeFromSyncQueue(st, item.id))]
         IN  IF ~invoked \/ answers[k]
             THEN LET rest == ProcessFrom(queue, k + 1,
                                removeFromSyncQueue(st, item.id), 0, answers)
                  IN  [rest EXCEPT !.log = <<entry>> \o @]
             ELSE IF rc < maxRetries
             THEN LET rest == ProcessFrom(queue, k + 1, st, rc + 1, answers)
                  IN  [rest EXCEPT
                         !.log = <<[entry EXCEPT !.removed = FALSE,
                                      !.after = getSyncQueue(st)]>> \o @]
             ELSE [stored |-> removeFromSyncQueue(st, item.id),
                   retryCountRef |-> 0, log |-> <<entry>>, threw |-> TRUE]

processSyncQueue(st, rc, answers) ==
    ProcessFrom(getSyncQueue(st), 1, st, rc, answers)

\* queueOperation(action, apiCall)
QueueOperation ==
    \E type \in QueuedActions :
        /\ nextId <= MaxQueued
        /\ stored' = addToSyncQueue(stored,
                       [action |-> [type |-> type],
                        apiCall |-> [op |-> type]], nextId)
        /\ nextId' = nextId + 1
        /\ last' = [event |-> "queueOperation", item |-> nextId,
                    before |-> getSyncQueue(stored)]
        /\ UNCHANGED <<retryCountRef, onLine, toggles, componentVars>>
        /\ UNCHANGED providerVars

\* syncNow / the retry timer: syncWithServer with isOnline true.  fetched and
\* saved tell whether api.getBoard() and api.saveBoard() resolve.
SyncWithServer ==
    \E fetched, saved \in BOOLEAN :
    \E answers \in [1..Len(getSyncQueue(stored)) -> BOOLEAN] :
        LET done == processSyncQueue(stored, retryCountRef, answers)
            ok == fetched /\ ~done.threw /\ saved
            rc == IF fetched THEN done.retryCountRef ELSE retryCountRef
        IN  /\ onLine
            /\ fetched \/ ~saved
            /\ stored' = IF fetched THEN done.stored ELSE stored
            /\ retryCountRef' = IF ok THEN 0
                                ELSE IF rc < maxRetries THEN rc + 1 ELSE rc
            /\ last' = [event |-> "syncWithServer", fetched |-> fetched,
                        before |-> getSyncQueue(stored),
                        log |-> IF fetched THEN done.log ELSE <<>>,
                        ok |-> ok]
            /\ UNCHANGED <<nextId, onLine, toggles, componentVars>>
            /\ UNCHANGED providerVars

\* window 'online' event: the handler's syncWithServer was created while
\* isOnline was false and returns at its guard
HookOnline ==
    /\ ~onLine
    /\ toggles < MaxToggles
    /\ onLine' = TRUE
    /\ toggles' = toggles + 1
    /\ UNCHANGED componentVars
    /\ last' = [event |-> "hookOnline"]
    /\ UNCHANGED <<stored, retryCountRef, nextId>>
    /\ UNCHANGED providerVars

\* window 'offline' event
HookOffline ==
    /\ onLine
    /\ toggles < MaxToggles
    /\ onLine' = FALSE
    /\ toggles' = toggles + 1
    /\ UNCHANGED componentVars
    /\ last' = [event |-> "hookOffline"]
    /\ UNCHANGED <<stored, retryCountRef, nextId>>
    /\ UNCHANGED providerVars

\* the page is loaded again: the ref starts at 0 again, localStorage stays
Reload ==
    /\ retryCountRef' = 0
    /\ last' = [event |-> "reload", before |-> getSyncQueue(stored)]
    /\ UNCHANGED <<stored, nextId, onLine, toggles, componentVars>>
    /\ UNCHANGED providerVars

OfflineSyncNext ==
    \/ QueueOperation
    \/ SyncWithServer
    \/ HookOnline
    \/ HookOffline
    \/ Reload

OfflineSyncSpec == Init /\ [][OfflineSyncNext]_vars

\* ------------------------------------------------ utils/merge.js, applied
\* the versions of one entity the merge is given: title is always there,
\* description and version may be missing
EntityTitles == {"Original", "A", "B"}

EntityDescriptions == {Null, Some("B")}

EntityVersions == {Null} \cup {Some(v) : v \in 1..MaxVersion}

Optional(key, m) == IF m = Null THEN <<>> ELSE key :> m[1]

Entities ==
    {[id |-> 1, title |-> t] @@ Optional("description", d)
         @@ Optional("version", v) :
       t \in EntityTitles, d \in EntityDescriptions, v \in EntityVersions}

\* nothing but the arguments of the call is there before the call
ArgumentsOnly ==
    /\ state = initialState
    /\ baseStateRef = Null
    /\ onLine = TRUE
    /\ stored = Null
    /\ mockBoard = emptyBoard
    /\ ops = <<>>
    /\ cycles = <<>>
    /\ nextId = 1
    /\ dispatched = 0
    /\ started = 0
    /\ serverEdits = 0
    /\ toggles = 0
    /\ NotMounted
    /\ retryCountRef = 0
    /\ queuedOps = <<>>

MergeInit ==
    /\ ArgumentsOnly
    /\ \E base \in {Null} \cup {Some(e) : e \in Entities} :
       \E local, server \in Entities :
          last = [event |-> "entities", base |-> base, local |-> local,
                  server |-> server]

\* threeWayMerge(base, local, server) of the arguments
CallThreeWayMerge ==
    /\ last.event = "entities"
    /\ last' = [event |-> "threeWayMerge", base |-> last.base,
                local |-> last.local, server |-> last.server,
                out |-> threeWayMerge(last.base, last.local, last.server)]
    /\ UNCHANGED <<stored, retryCountRef, nextId, onLine, toggles, componentVars>>
    /\ UNCHANGED providerVars

MergeNext == CallThreeWayMerge

MergeSpec == MergeInit /\ [][MergeNext]_vars

\* the documents the board merge is given: up to MaxMergeLists lists in any
\* order, each card of MergeCardIds in at most one of them, and the entities'
\* title and version as one of DocVariants
MergeListIds == 1..MaxMergeLists

MergeCardIds == {8, 9}

DocVariants == {[title |-> "A", version |-> 1], [title |-> "B", version |-> 2]}

\* the sequences without repetition over a set of ids
Orders(ids) ==
    {s \in UNION {[1..n -> ids] : n \in 0..Cardinality(ids)} :
        \A i, j \in DOMAIN s : i # j => s[i] # s[j]}

DocOf(lists, cards, where, variant) ==
    [lists |-> [i \in DOMAIN lists |->
                  variant @@ [id |-> lists[i], order |-> i - 1,
                              archived |-> FALSE]],
     cards |-> [lid \in {lists[i] : i \in DOMAIN lists} |->
                  MapSeq(SelectSeq(cards, LAMBDA c : where[c] = lid),
                         LAMBDA c : variant @@ [id |-> c, description |-> "",
                                                tags |-> <<>>])],
     boardTitle |-> initialState.boardTitle]

Documents ==
    {DocOf(lists, cards, where, variant) :
        lists \in Orders(MergeListIds), cards \in Orders(MergeCardIds),
        where \in [MergeCardIds -> MergeListIds], variant \in DocVariants}

\* every list id is a key of cards exactly once, every card is in exactly
\* one array
DocumentInvariant(d) ==
    /\ \A i, j \in DOMAIN d.lists : i # j => d.lists[i].id # d.lists[j].id
    /\ DOMAIN d.cards = Ids(d.lists)
    /\ \A a, b \in DOMAIN d.cards : \A i \in DOMAIN d.cards[a] :
         \A j \in DOMAIN d.cards[b] :
            d.cards[a][i].id = d.cards[b][j].id => a = b /\ i = j

BoardMergeInit ==
    /\ ArgumentsOnly
    /\ \E base \in {Null} \cup {Some(d) : d \in Documents} :
       \E local, server \in Documents :
          last = [event |-> "documents", base |-> base, local |-> local,
                  server |-> server]

\* mergeBoardState(baseState, localState, serverState) of the arguments
CallMergeBoardState ==
    /\ last.event = "documents"
    /\ last' = [event |-> "mergeBoardState", base |-> last.base,
                local |-> last.local, server |-> last.server,
                out |-> mergeBoardState(last.base, last.local, last.server)]
    /\ UNCHANGED <<stored, retryCountRef, nextId, onLine, toggles, componentVars>>
    /\ UNCHANGED providerVars

BoardMergeNext == CallMergeBoardState

BoardMergeSpec == BoardMergeInit /\ [][BoardMergeNext]_vars

\* the documents of a board of two lists: each card of MergeCardIds in either
\* list, as after MOVE_CARD on one side
TwoLists == <<1, 2>>

TwoListDocuments ==
    {DocOf(TwoLists, cards, where, variant) :
        cards \in Orders(MergeCardIds),
        where \in [MergeCardIds -> {TwoLists[i] : i \in DOMAIN TwoLists}],
        variant \in DocVariants}

TwoListInit ==
    /\ ArgumentsOnly
    /\ \E base \in {Null} \cup {Some(d) : d \in TwoListDocuments} :
       \E local, server \in TwoListDocuments :
          last = [event |-> "documents", base |-> base, local |-> local,
                  server |-> server]

TwoListSpec == TwoListInit /\ [][BoardMergeNext]_vars

\* ---------------------------------------- context/boardReducer.js, applied
\* a list id that no list of the document has
MissingListId == 0

ReducerInit ==
    /\ ArgumentsOnly
    /\ last = [event |-> "init"]

\* boardReducer(state, action) is evaluated: the state it returns is the next
\* state, and a TypeError leaves the state as it is
ReducerDispatch(action, gid) ==
    /\ IF ReducerThrows(state, action)
       THEN state' = state
       ELSE state' = boardReducer(state, action, gid)
    /\ last' = [event |-> "reducer", action |-> action, before |-> state,
                threw |-> ReducerThrows(state, action)]
    /\ nextId' = IF action.type \in {"ADD_LIST", "ADD_CARD"}
                 THEN nextId + 1 ELSE nextId
    /\ UNCHANGED <<retryCountRef, baseStateRef, onLine, stored, mockBoard,
                   ops, cycles, dispatched, started, serverEdits, toggles, componentVars,
                   queuedOps>>

\* the number of cards of a document
TotalCards(cards) ==
    LET RECURSIVE Sum(_)
        Sum(keys) == IF keys = {} THEN 0
                     ELSE LET k == CHOOSE x \in keys : TRUE
                          IN  Len(cards[k]) + Sum(keys \ {k})
    IN  Sum(DOMAIN cards)

\* the versions of the lists and cards of a document, by kind and id
VersionsIn(doc) ==
    {<<"list", doc.lists[i].id, doc.lists[i].version>> : i \in DOMAIN doc.lists}
    \cup UNION {{<<"card", doc.cards[lid][i].id, doc.cards[lid][i].version>> :
                   i \in DOMAIN doc.cards[lid]} : lid \in DOMAIN doc.cards}

\* how often the versions of the lists and cards of a document were raised
VersionBumps(doc) ==
    LET RECURSIVE Sum(_)
        Sum(vs) == IF vs = {} THEN 0
                   ELSE LET v == CHOOSE x \in vs : TRUE
                        IN  v[3] - 1 + Sum(vs \ {v})
    IN  Sum(VersionsIn(doc))

\* the entities created and the versions raised so far
Changes == (nextId - 1) + VersionBumps(state)

ListIdsOrMissing == Ids(state.lists) \cup {MissingListId}

\* the cards of the document, whatever list they are in
CardsOnBoard ==
    UNION {{state.cards[lid][i] : i \in DOMAIN state.cards[lid]} :
             lid \in DOMAIN state.cards}

DispatchAddList ==
    /\ Changes < MaxChanges
    /\ ReducerDispatch([type |-> "ADD_LIST", payload |-> [title |-> ListTitle]],
                       nextId)

DispatchChangeList ==
    \E type \in {"RENAME_LIST", "ARCHIVE_LIST", "RESTORE_LIST"} :
    \E k \in DOMAIN state.lists :
        /\ Changes < MaxChanges
        /\ ReducerDispatch([type |-> type,
                            payload |-> [listId |-> state.lists[k].id,
                                         title |-> SavedTitle]], 0)

DispatchDeleteList ==
    \E listId \in Ids(state.lists) :
        ReducerDispatch([type |-> "DELETE_LIST",
                         payload |-> [listId |-> listId]], 0)

DispatchAddCard ==
    \E listId \in Ids(state.lists) :
        /\ Changes < MaxChanges
        /\ ReducerDispatch(
             [type |-> "ADD_CARD",
              payload |-> [listId |-> listId,
                           card |-> [title |-> CardTitle, description |-> "",
                                     tags |-> <<>>]]], nextId)

DispatchUpdateCard ==
    \E listId \in ListIdsOrMissing : \E card \in CardsOnBoard :
        /\ Changes < MaxChanges
        /\ ReducerDispatch(
             [type |-> "UPDATE_CARD",
              payload |-> [listId |-> listId, cardId |-> card.id,
                           updates |-> [title |-> SavedTitle]]], 0)

DispatchDeleteCard ==
    \E listId \in ListIdsOrMissing : \E card \in CardsOnBoard :
        ReducerDispatch([type |-> "DELETE_CARD",
                         payload |-> [listId |-> listId, cardId |-> card.id]],
                        0)

\* a drop position of the destination list, as handleDrop computes it
DispatchMoveCard ==
    \E source \in ListIdsOrMissing : \E destination \in Ids(state.lists) :
    \E card \in CardsOnBoard :
    \E index \in 0..Len(state.cards[destination]) :
        /\ source = destination =>
              Len(state.lists) + TotalCards(state.cards) <= MaxChanges
        /\ ReducerDispatch(
             [type |-> "MOVE_CARD",
              payload |-> [sourceListId |-> source,
                           destinationListId |-> destination,
                           cardId |-> card.id, destinationIndex |-> index]],
             0)

DispatchReorderCard ==
    \E listId \in ListIdsOrMissing :
    \E startIndex, endIndex \in
          IF listId = MissingListId THEN {0}
          ELSE 0..(Len(state.cards[listId]) - 1) :
        ReducerDispatch(
          [type |-> "REORDER_CARD",
           payload |-> [listId |-> listId, startIndex |-> startIndex,
                        endIndex |-> endIndex]], 0)

ReducerNext ==
    \/ DispatchAddList
    \/ DispatchChangeList
    \/ DispatchDeleteList
    \/ DispatchAddCard
    \/ DispatchUpdateCard
    \/ DispatchDeleteCard
    \/ DispatchMoveCard
    \/ DispatchReorderCard

ReducerSpec == ReducerInit /\ [][ReducerNext]_vars

\* ------------------------------------- services/storage.js, BoardProvider
\* the keys the saving effect leaves out of the record
SyncKeys == {"syncing", "error", "previousState", "baseState", "conflicts",
             "isOnline"}

\* the record under kanban_board_data once the effect of a commit has run:
\* JSON.parse(JSON.stringify(boardData))
boardData(st) == [k \in (DOMAIN st) \ SyncKeys |-> st[k]]

\* the page is loaded again: the initializer of useReducer returns
\* loadBoard() || initialState, the refs are new and no call is in flight
ReloadBoard ==
    /\ state' = boardData(state)
    /\ baseStateRef' = Null
    /\ ops' = <<>>
    /\ cycles' = <<>>
    /\ retryCountRef' = 0
    /\ last' = [event |-> "reload", before |-> state]
    /\ UNCHANGED <<onLine, stored, mockBoard, nextId, dispatched, started,
                   serverEdits, toggles, componentVars, queuedOps>>

\* dispatch({type: LOAD_BOARD, payload}) with a saved record as payload
DispatchLoadBoard ==
    \E payload \in {boardData(state), boardData(initialState)} :
        ReducerDispatch([type |-> "LOAD_BOARD", payload |-> payload], 0)

\* the interval calls performSync(): its guard throws, returns, or a sync
\* cycle starts with the fetch of the board
CallPerformSync ==
    LET closure == Closure(state)
    IN  /\ onLine
        /\ IF SyncThrows(closure) THEN TRUE ELSE CanCallPerformSync(closure)
        /\ IF SyncThrows(closure)
           THEN UNCHANGED <<cycles, started>>
           ELSE /\ cycles' = CyclesAfterPerformSync(closure, "timer", Null)
                /\ started' = StartedAfterPerformSync(closure)
        /\ last' = [event |-> "performSync", threw |-> SyncThrows(closure),
                    before |-> state]
        /\ UNCHANGED <<retryCountRef, state, baseStateRef, onLine, stored,
                       mockBoard, ops, nextId, dispatched, serverEdits,
                       toggles, componentVars, queuedOps>>

PersistNext ==
    \/ DispatchAddList
    \/ DispatchChangeList
    \/ DispatchAddCard
    \/ ReloadBoard
    \/ DispatchLoadBoard
    \/ CallPerformSync

PersistSpec == ReducerInit /\ [][PersistNext]_vars

\* ----------------------------- boardReducer MOVE_CARD, there and back again
\* the board after ADD_LIST, ADD_LIST and n times ADD_CARD to the first list:
\* lists 1 and 2, the cards 3 .. n + 2 in list 1
RECURSIVE BoardWithCards(_)
BoardWithCards(n) ==
    IF n = 0
    THEN boardReducer(
           boardReducer(initialState,
                        [type |-> "ADD_LIST",
                         payload |-> [title |-> ListTitle]], 1),
           [type |-> "ADD_LIST", payload |-> [title |-> ListTitle]], 2)
    ELSE boardReducer(
           BoardWithCards(n - 1),
           [type |-> "ADD_CARD",
            payload |-> [listId |-> 1,
                         card |-> [title |-> CardTitle, description |-> "",
                                   tags |-> <<>>]]], n + 2)

\* UPDATE_CARD for each of the cards of list 1 with an id in edited
RECURSIVE WithEdited(_, _)
WithEdited(doc, edited) ==
    IF edited = {} THEN doc
    ELSE LET id == CHOOSE x \in edited : TRUE
         IN  WithEdited(
               boardReducer(doc,
                            [type |-> "UPDATE_CARD",
                             payload |-> [listId |-> 1, cardId |-> id,
                                          updates |-> [title |-> SavedTitle]]],
                            0),
               edited \ {id})

MoveInit ==
    /\ \E n \in 2..MaxChanges : \E edited \in SUBSET (3..(n + 2)) :
          /\ state = WithEdited(BoardWithCards(n), edited)
          /\ nextId = n + 3
    /\ last = [event |-> "board", start |-> state]
    /\ baseStateRef = Null
    /\ onLine = TRUE
    /\ stored = Null
    /\ mockBoard = emptyBoard
    /\ ops = <<>>
    /\ cycles = <<>>
    /\ dispatched = 0
    /\ started = 0
    /\ serverEdits = 0
    /\ toggles = 0
    /\ NotMounted
    /\ retryCountRef = 0
    /\ queuedOps = <<>>

\* MOVE_CARD of a card of list 1 to index 0 of list 2
MoveOut ==
    /\ last.event = "board"
    /\ \E i \in DOMAIN state.cards[1] :
          /\ state' = boardReducer(
                         state,
                         [type |-> "MOVE_CARD",
                          payload |-> [sourceListId |-> 1,
                                       destinationListId |-> 2,
                                       cardId |-> state.cards[1][i].id,
                                       destinationIndex |-> 0]], 0)
          /\ last' = [event |-> "out", start |-> last.start, from |-> i - 1,
                      cardId |-> state.cards[1][i].id]
    /\ UNCHANGED <<retryCountRef, baseStateRef, onLine, stored, mockBoard,
                   ops, cycles, dispatched, started, serverEdits, toggles, componentVars,
                   queuedOps, nextId>>

\* MOVE_CARD of that card from list 2 to an index of list 1
MoveBack ==
    /\ last.event = "out"
    /\ \E j \in 0..Len(state.cards[1]) :
          /\ state' = boardReducer(
                         state,
                         [type |-> "MOVE_CARD",
                          payload |-> [sourceListId |-> 2,
                                       destinationListId |-> 1,
                                       cardId |-> last.cardId,
                                       destinationIndex |-> j]], 0)
          /\ last' = [event |-> "back", start |-> last.start,
                      from |-> last.from, to |-> j, cardId |-> last.cardId]
    /\ UNCHANGED <<retryCountRef, baseStateRef, onLine, stored, mockBoard,
                   ops, cycles, dispatched, started, serverEdits, toggles, componentVars,
                   queuedOps, nextId>>

MoveNext == MoveOut \/ MoveBack

MoveSpec == MoveInit /\ [][MoveNext]_vars

\* ------------------------------------------------- hooks/useUndoRedo.js
\* the initialState the hook is called with; pushed snapshots are 1, 2, ...
initialSnapshot == 0

\* arr.slice(0, end)
Slice(arr, end) ==
    LET k == IF end < 0
             THEN (IF Len(arr) + end < 0 THEN 0 ELSE Len(arr) + end)
             ELSE (IF end > Len(arr) THEN Len(arr) ELSE end)
    IN  SubSeq(arr, 1, k)

\* history[index]?.state || fallback
EntryState(hist, index, fallback) ==
    IF index + 1 \in DOMAIN hist THEN hist[index + 1].state ELSE fallback

\* a render: the values the callbacks of this render close over, and the
\* currentState the effect sets from them
RenderOf(hist, index) ==
    [history |-> hist, currentIndex |-> index,
     currentState |-> EntryState(hist, index, initialSnapshot)]

canUndo(r) == r.currentIndex > 0

canRedo(r) == r.currentIndex < Len(r.history) - 1

\* the updater pushState gives setHistory; index is the currentIndex of the
\* render that made the callback
HistoryAfterPush(prevHistory, index, newState, max) ==
    LET newHistory == Append(Slice(prevHistory, index + 1),
                             [state |-> newState])
    IN  IF Len(newHistory) > max THEN Tail(newHistory) ELSE newHistory

IndexAfterPush_Unclamped(prevIndex, max) == prevIndex + 1

\* the updater pushState gives setCurrentIndex
IndexAfterPush(prevIndex, max) ==
    LET newIndex == prevIndex + 1
    IN  IF newIndex >= max THEN max - 1 ELSE newIndex

UndoRedoInit ==
    /\ maxHistorySize \in 1..MaxCapacity
    /\ history = <<[state |-> initialSnapshot]>>
    /\ currentIndex = 0
    /\ isNavigatingRef = FALSE
    /\ timeouts = 0
    /\ rendered = RenderOf(<<[state |-> initialSnapshot]>>, 0)
    /\ resolutions = <<>>
    /\ nextId = 1
    /\ last = [event |-> "useUndoRedo", calls |-> <<>>, previous |-> <<>>,
               rendered |-> TRUE]
    /\ state = initialState
    /\ baseStateRef = Null
    /\ onLine = TRUE
    /\ stored = Null
    /\ mockBoard = emptyBoard
    /\ ops = <<>>
    /\ cycles = <<>>
    /\ dispatched = 0
    /\ started = 0
    /\ serverEdits = 0
    /\ toggles = 0
    /\ retryCountRef = 0
    /\ queuedOps = <<>>

\* the callbacks run one after the other without a render in between while
\* React batches the state updates of one event
BatchOpen == last.rendered \/ Len(last.calls) < MaxBatch

\* the call is recorded; previous is the undo that took effect as the last
\* call before the render that precedes this event, if there was one
Called(call) ==
    last' = [event |-> "useUndoRedo",
             calls |-> (IF last.rendered THEN <<>> ELSE last.calls)
                         \o <<call>>,
             previous |->
                 IF ~last.rendered THEN last.previous
                 ELSE IF /\ last.calls # <<>>
                         /\ last.calls[Len(last.calls)].op = "undo"
                         /\ last.calls[Len(last.calls)].acted
                      THEN <<last.calls[Len(last.calls)]>>
                      ELSE <<>>,
             rendered |-> FALSE]

\* the history and the pointer a call finds
Found == [history |-> history, currentIndex |-> currentIndex]

boardUnused ==
    UNCHANGED <<state, baseStateRef, onLine, stored, mockBoard, ops, cycles,
                dispatched, started, serverEdits, toggles, retryCountRef,
                queuedOps, maxHistorySize, resolutions>>

PushState ==
    /\ BatchOpen
    /\ nextId <= MaxPushes
    /\ IF isNavigatingRef
       THEN UNCHANGED <<history, currentIndex>>
       ELSE /\ history' = HistoryAfterPush(history, rendered.currentIndex,
                                           nextId, maxHistorySize)
            /\ currentIndex' = IndexAfterPush(currentIndex, maxHistorySize)
    /\ nextId' = nextId + 1
    /\ Called([op |-> "pushState", state |-> nextId,
               suppressed |-> isNavigatingRef] @@ Found)
    /\ UNCHANGED <<isNavigatingRef, timeouts, rendered>>
    /\ boardUnused

Undo ==
    /\ BatchOpen
    /\ timeouts < MaxBatch
    /\ IF ~canUndo(rendered)
       THEN /\ UNCHANGED <<currentIndex, isNavigatingRef, timeouts>>
            /\ Called([op |-> "undo", acted |-> FALSE,
                       returned |-> rendered.currentState] @@ Found)
       ELSE /\ isNavigatingRef' = TRUE
            /\ currentIndex' = currentIndex - 1
            /\ timeouts' = timeouts + 1
            /\ Called([op |-> "undo", acted |-> TRUE,
                       returned |-> EntryState(rendered.history,
                                               rendered.currentIndex - 1,
                                               rendered.currentState)]
                        @@ Found)
    /\ UNCHANGED <<history, rendered, nextId>>
    /\ boardUnused

Redo ==
    /\ BatchOpen
    /\ timeouts < MaxBatch
    /\ IF ~canRedo(rendered)
       THEN /\ UNCHANGED <<currentIndex, isNavigatingRef, timeouts>>
            /\ Called([op |-> "redo", acted |-> FALSE,
                       returned |-> rendered.currentState] @@ Found)
       ELSE /\ isNavigatingRef' = TRUE
            /\ currentIndex' = currentIndex + 1
            /\ timeouts' = timeouts + 1
            /\ Called([op |-> "redo", acted |-> TRUE,
                       returned |-> EntryState(rendered.history,
                                               rendered.currentIndex + 1,
                                               rendered.currentState)]
                        @@ Found)
    /\ UNCHANGED <<history, rendered, nextId>>
    /\ boardUnused

ClearHistory ==
    /\ BatchOpen
    /\ history' = <<[state |-> initialSnapshot]>>
    /\ currentIndex' = 0
    /\ isNavigatingRef' = FALSE
    /\ Called([op |-> "clearHistory"])
    /\ UNCHANGED <<timeouts, rendered, nextId>>
    /\ boardUnused

JumpToIndex ==
    \E index \in (0 - 1)..Len(rendered.history) :
        /\ BatchOpen
        /\ timeouts < MaxBatch
        /\ IF index < 0 \/ index >= Len(rendered.history)
           THEN /\ UNCHANGED <<currentIndex, isNavigatingRef, timeouts>>
                /\ Called([op |-> "jumpToIndex", index |-> index,
                           acted |-> FALSE,
                           returned |-> rendered.currentState])
           ELSE /\ isNavigatingRef' = TRUE
                /\ currentIndex' = index
                /\ timeouts' = timeouts + 1
                /\ Called([op |-> "jumpToIndex", index |-> index,
                           acted |-> TRUE,
                           returned |-> EntryState(rendered.history, index,
                                                   rendered.currentState)])
        /\ UNCHANGED <<history, rendered, nextId>>
        /\ boardUnused

\* React renders with the updated state and runs the effect that sets
\* currentState; the callbacks are made again
Render ==
    /\ ~last.rendered
    /\ rendered' = RenderOf(history, currentIndex)
    /\ last' = [last EXCEPT !.rendered = TRUE]
    /\ UNCHANGED <<history, currentIndex, isNavigatingRef, timeouts, nextId>>
    /\ boardUnused

\* a setTimeout(..., 0) callback of undo, redo or jumpToIndex runs, after
\* the event that called them has been rendered
TimeoutRuns ==
    /\ last.rendered
    /\ timeouts > 0
    /\ timeouts' = timeouts - 1
    /\ isNavigatingRef' = FALSE
    /\ UNCHANGED <<history, currentIndex, rendered, nextId, last>>
    /\ boardUnused

UndoRedoNext ==
    \/ PushState
    \/ Undo
    \/ Redo
    \/ ClearHistory
    \/ JumpToIndex
    \/ Render
    \/ TimeoutRuns

UndoRedoSpec == UndoRedoInit /\ [][UndoRedoNext]_vars

\* ------------------------------------------------------------- properties
\* the document part of a state
Doc(st) == [lists |-> st.lists, cards |-> st.cards, boardTitle |-> st.boardTitle]

\* C1: when the remote call of a mutation that no other dispatch overlapped
\* fails with a status other than 409, lists, cards and boardTitle are exactly
\* what they were immediately before the mutation, previousState is null,
\* syncing is false and error is the failure message.
C1_SoloFailureRestoresSnapshot ==
    (last.event = "failed" /\ last.solo) =>
        /\ Doc(state) = last.before
        /\ state.previousState = Null
        /\ state.syncing = FALSE
        /\ state.error = Some(last.message)

\* a card was added, nothing overlapped it, and its call has just failed
C1_Witness ==
    /\ last.event = "failed"
    /\ last.solo
    /\ last.effect.type = "ADD_CARD"
    /\ ~EffectPresent(state, last.effect)

\* C6: a mutation dispatched while offline is applied, one item carrying its
\* action is appended to the stored queue, no remote call is started,
\* previousState is null and syncing is false; and what a queued mutation
\* wrote stays in the document through every later step, a rollback included,
\* until a later rename replaces it or a merged document is applied.
C6_OfflineDispatchQueued ==
    /\ [](last.event = "queued" =>
            /\ EffectPresent(state, last.effect)
            /\ getSyncQueue(stored) =
                   Append(last.queueBefore,
                          [action |-> last.action, id |-> last.itemId])
            /\ DOMAIN ops = last.callsBefore
            /\ state.previousState = Null
            /\ state.syncing = FALSE)
    /\ [][\A k \in DOMAIN queuedOps :
            (/\ ~queuedOps'[k].mergedSince
             /\ ~queuedOps'[k].superseded
             /\ EffectPresent(state, queuedOps[k].effect))
                => EffectPresent(state', queuedOps[k].effect)]_vars

\* a mutation was queued offline, and later the call of another one failed
C6_Witness ==
    /\ last.event = "failed"
    /\ \E k \in DOMAIN queuedOps :
          /\ ~queuedOps[k].mergedSince
          /\ EffectPresent(state, queuedOps[k].effect)

\* a dispatch has just resolved and none is left in flight
AllResolved ==
    last.event \in {"committed", "failed", "conflicted"} /\ DOMAIN ops = {}

\* C2: a mutation that was first in flight, was overlapped by a later
\* dispatch and whose call failed with a status other than 409 has left
\* nothing in the document once both dispatches have resolved, whether it
\* failed before or after the later one resolved.
C2_OverlappedFailureIsUndone ==
    AllResolved =>
        /\ (last.event = "failed" /\ last.first /\ ~last.solo)
               => ~EffectPresent(state, last.effect)
        /\ \A e \in last.sawFail : ~EffectPresent(state, e)

\* C3: once every dispatch has resolved, what a mutation whose call succeeded
\* wrote, and what a mutation queued offline wrote, is in the document,
\* unless a later rename replaced it or a merged document was applied since.
C3_RollbackErasesOnlyTheFailed ==
    AllResolved =>
        /\ (last.event = "committed" /\ ~last.mergedSince /\ ~last.superseded)
               => EffectPresent(state, last.effect)
        /\ \A k \in DOMAIN queuedOps :
               (~queuedOps[k].mergedSince /\ ~queuedOps[k].superseded)
                   => EffectPresent(state, queuedOps[k].effect)

\* the conflict list reports the value of the rename as the local side
ReportedAsLocal(conflicts, e) ==
    \E k \in 1..Len(conflicts) :
        /\ conflicts[k].type = "list"
        /\ conflicts[k].id = e.id
        /\ \E j \in 1..Len(conflicts[k].conflicts) :
              /\ conflicts[k].conflicts[j].field = "title"
              /\ conflicts[k].conflicts[j].local = Some(e.title)

\* C4: when the cycle invoked for a call rejected with 409 finishes, and no
\* other dispatch overlapped the call or the cycle, what the edit wrote is
\* in the document or is the local side of a published conflict.
C4_ConflictedEditNotDropped ==
    (/\ last.event \in {"syncApplied", "syncPublished"}
     /\ last.trigger = "conflict"
     /\ last.byOp[1].solo
     /\ last.during = {})
        => \/ EffectPresent(state, last.byOp[1].effect)
           \/ /\ last.byOp[1].effect.type = "RENAME_LIST"
              /\ ReportedAsLocal(state.conflicts, last.byOp[1].effect)

\* C5: after a cycle applies its merged document, what each mutation
\* dispatched while the cycle awaited its fetch wrote is in the document,
\* unless the mutation was rolled back or another rename of that time
\* replaced it.
C5_MutationDuringFetchKept ==
    last.event = "syncApplied" =>
        \A e \in last.during \ last.undone :
            \/ EffectPresent(state, e)
            \/ \E e2 \in last.during \ {e} : Supersedes(e2, e)

\* C7: after a call failed with no response (status 0), what the mutation
\* wrote is in the document and the stored queue holds an item for its action.
C7_NetworkErrorQueued ==
    (last.event = "failed" /\ last.status = 0) =>
        /\ EffectPresent(state, last.effect)
        /\ \E k \in 1..Len(getSyncQueue(stored)) :
               getSyncQueue(stored)[k].action = last.action

\* C8: at most one performSync call is between its guard and its end.
C8_SingleCycle == Cardinality(DOMAIN cycles) <= 1

\* C9: a cycle whose merge reports conflicts publishes them, leaves lists
\* and cards as they were, and evaluates the call of no queue item.
C9_NoDrainOnConflicts ==
    last.event = "syncPublished" =>
        /\ Len(state.conflicts) > 0
        /\ state.lists = last.before.lists
        /\ state.cards = last.before.cards
        /\ last.attempts = <<>>

\* C10: in a drain, the call of an item is evaluated only when every item
\* enqueued before it has left the queue.
C10_DrainInEnqueueOrder ==
    last.event \in {"syncApplied", "syncPublished"} =>
        \A k \in DOMAIN last.attempts :
            last.attempts[k].inQueue[1] = last.attempts[k].item

\* C11: a queue item read back from the persisted record is removed by the
\* drain only after its remote call was made and resolved, or after its retry
\* budget was used up
C11_RemovedOnlyAfterInvocation ==
    last.event = "syncWithServer" =>
        \A k \in DOMAIN last.log :
            last.log[k].removed =>
                \/ last.log[k].invoked /\ last.log[k].succeeded
                \/ last.log[k].invoked /\ last.log[k].retries >= maxRetries

\* the cards whose ADD_CARD took the offline branch
QueuedCards ==
    {queuedOps[k].effect : k \in {j \in DOMAIN queuedOps :
                                    queuedOps[j].effect.type = "ADD_CARD"}}

RemoteCallFailed == last.event \in {"failed", "conflicted", "syncFailed"}

\* C12: when no remote call fails, a card added while offline leads, once
\* the client is online, to an empty queue with the card in the local
\* document and in the document of the remote authority
C12_OfflineCardDrains ==
    [](~RemoteCallFailed) =>
        ((onLine /\ QueuedCards # {}) ~>
            /\ getSyncQueue(stored) = <<>>
            /\ \A e \in QueuedCards :
                   EffectPresent(state, e) /\ EffectPresent(mockBoard, e))

\* C13: a queued call whose invocation has failed on the first attempt and
\* on 3 retries is no longer in the queue
C13_DroppedAfterThreeRetries ==
    \A k \in DOMAIN queuedOps :
        queuedOps[k].failures > maxRetries =>
            queuedOps[k].item \notin Ids(getSyncQueue(stored))

\* C14: the queue is in the order its items were issued; addToSyncQueue
\* puts the new item at the tail, every removeFromSyncQueue of a drain takes
\* out the item with the given id and nothing else, and the record read
\* after a reload is the record that was there before
C14_QueueIsFIFO ==
    LET queue == getSyncQueue(stored)
        QueueBefore(k) == IF k = 1 THEN last.before ELSE last.log[k - 1].after
    IN  /\ \A i, j \in 1..Len(queue) : i < j => queue[i].id < queue[j].id
        /\ last.event = "queueOperation" =>
              /\ Len(queue) = Len(last.before) + 1
              /\ SubSeq(queue, 1, Len(last.before)) = last.before
              /\ queue[Len(queue)].id = last.item
        /\ last.event = "syncWithServer" =>
              /\ \A k \in DOMAIN last.log :
                    last.log[k].after =
                        IF last.log[k].removed
                        THEN SelectSeq(QueueBefore(k),
                               LAMBDA it : it.id # last.log[k].item)
                        ELSE QueueBefore(k)
              /\ queue = IF last.log = <<>> THEN last.before
                         ELSE last.log[Len(last.log)].after
        /\ last.event = "reload" => queue = last.before

\* a drain has taken the first of three queued items out of the queue
C14_Witness ==
    /\ last.event = "syncWithServer"
    /\ Len(last.before) = 3
    /\ Len(last.log) = 3
    /\ last.log[1].removed
    /\ Len(last.log[1].after) = 2

\* the remote document after the requests of calls were handled in order
RECURSIVE Replay(_, _)
Replay(board, calls) ==
    IF calls = <<>> THEN board
    ELSE Replay(Handle(board, Head(calls)).board, Tail(calls))

\* the same entities in the same order with the same tracked fields
SameEntities(a, b) ==
    /\ Len(a) = Len(b)
    /\ \A i \in 1..Len(a) :
          /\ a[i].id = b[i].id
          /\ \A f \in {Fields[j] : j \in DOMAIN Fields} :
                Get(a[i], f) = Get(b[i], f)

SameDocument(remote, local) ==
    /\ SameEntities(remote.lists, local.lists)
    /\ \A id \in Ids(local.lists) \cup Ids(remote.lists) :
          SameEntities(CardsOf(remote.cards, id), CardsOf(local.cards, id))

\* C15: while the client has been offline from the start, the calls it has
\* queued, replayed in order against the remote document from before it went
\* offline, give a remote document equal to the local document
C15_ReplayEqualsLocal ==
    (~onLine /\ toggles = 0) =>
        SameDocument(
            Replay(emptyBoard, MapSeq(queuedOps, LAMBDA q : q.call)),
            Doc(state))

\* C16: for an entity in base and on both sides and each tracked field, the
\* merged value is the common value when local and server agree, the
\* server's when only the server changed the field since base, the local one
\* when only the local side changed it; fields changed on disjoint sides
\* merge without conflict
C16_FieldwiseMerge ==
    (last.event = "threeWayMerge" /\ last.base # Null) =>
        \A f \in {Fields[j] : j \in DOMAIN Fields} :
            LET b == BaseValue(last.base, f)
                l == Get(last.local, f)
                s == Get(last.server, f)
                m == Get(last.out.merged, f)
            IN  /\ l = s => m = l
                /\ (l = b /\ s # b) => m = s
                /\ (s = b /\ l # b) => m = l
                /\ (l = s \/ l = b \/ s = b) =>
                      \A k \in DOMAIN last.out.conflicts :
                          last.out.conflicts[k].field # f

\* C17: a conflict on a field of an entity that is in base and on both sides
\* is reported exactly when the field's base, local and server values are
\* pairwise distinct, whatever the versions of the entities are; the merged
\* value of a field in conflict is the server's
C17_ConflictIffPairwiseDistinct ==
    (last.event = "threeWayMerge" /\ last.base # Null) =>
        \A f \in {Fields[j] : j \in DOMAIN Fields} :
            LET b == BaseValue(last.base, f)
                l == Get(last.local, f)
                s == Get(last.server, f)
                reported == \E k \in DOMAIN last.out.conflicts :
                               last.out.conflicts[k].field = f
            IN  /\ reported <=> (l # b /\ s # b /\ l # s)
                /\ reported => Get(last.out.merged, f) = s

\* the cards of a document, whatever list they are in
AllCards(d) == UNION {{d.cards[lid][i] : i \in DOMAIN d.cards[lid]} :
                        lid \in DOMAIN d.cards}

Entries(lists) == {lists[i] : i \in DOMAIN lists}

IdsOf(entities) == {e.id : e \in entities}

BaseEntries(base) == IF base = Null THEN {} ELSE Entries(base[1].lists)

BaseAllCards(base) == IF base = Null THEN {} ELSE AllCards(base[1])

\* C18: a list or card that is on the local side and neither on the server
\* nor in base is in the merged document as the local side has it; a list or
\* card that is on the server and in base and not on the local side is not
\* in the merged document
C18_EntityLevelMerge ==
    last.event = "mergeBoardState" =>
        LET merged == last.out.merged
        IN  /\ \A l \in Entries(last.local.lists) :
                  l.id \notin IdsOf(Entries(last.server.lists))
                                \cup IdsOf(BaseEntries(last.base))
                  => l \in Entries(merged.lists)
            /\ \A c \in AllCards(last.local) :
                  c.id \notin IdsOf(AllCards(last.server))
                                \cup IdsOf(BaseAllCards(last.base))
                  => c \in AllCards(merged)
            /\ \A l \in Entries(last.server.lists) :
                  (l.id \in IdsOf(BaseEntries(last.base))
                     /\ l.id \notin IdsOf(Entries(last.local.lists)))
                  => l.id \notin IdsOf(Entries(merged.lists))
            /\ \A c \in AllCards(last.server) :
                  (c.id \in IdsOf(BaseAllCards(last.base))
                     /\ c.id \notin IdsOf(AllCards(last.local)))
                  => c.id \notin IdsOf(AllCards(merged))

\* a merge of a local side with a card of its own making and without a card
\* that base and the server have
C18_Witness ==
    /\ last.event = "mergeBoardState"
    /\ \E c \in AllCards(last.local) :
          /\ c.id \notin IdsOf(AllCards(last.server))
                           \cup IdsOf(BaseAllCards(last.base))
          /\ c \in AllCards(last.out.merged)
    /\ \E c \in AllCards(last.server) :
          /\ c.id \in IdsOf(BaseAllCards(last.base))
          /\ c.id \notin IdsOf(AllCards(last.local))
          /\ c.id \notin IdsOf(AllCards(last.out.merged))

\* C19: for every base and every document d that satisfies the document
\* invariant, mergeBoardState(base, d, d) has no conflicts and its merged
\* lists and cards are those of d, in d's order
C19_MergeIdempotent ==
    (/\ last.event = "mergeBoardState"
     /\ last.local = last.server
     /\ DocumentInvariant(last.local)) =>
        /\ last.out.conflicts = <<>>
        /\ last.out.merged.lists = last.local.lists
        /\ last.out.merged.cards = last.local.cards

\* a merge of a document of one list and two cards with itself, from a base
\* that differs from it
C19_Witness ==
    /\ last.event = "mergeBoardState"
    /\ last.local = last.server
    /\ last.base # Null
    /\ last.base[1] # last.local
    /\ Len(last.local.lists) = 1
    /\ Cardinality(AllCards(last.local)) = 2
    /\ last.out.merged.cards = last.local.cards

\* C20: every update of an existing list that is on its way to the remote
\* authority carries the version of the list the client knew when it made
\* the call
C20_UpdateCarriesVersion ==
    \A i \in DOMAIN ops :
        ops[i].call.op = "updateList" =>
            LET known == FindById(ops[i].closure.lists, ops[i].call.listId)
            IN  /\ Has(ops[i].call.updates, "version")
                /\ Some(ops[i].call.updates.version) = Get(known[1], "version")

\* C21: when the remote call of a mutation has succeeded (and no failure,
\* merge or later rename has touched what it wrote), the synchronization base
\* is a document that has the mutation in it, and previousState is cleared
C21_CommitRecordsNewBase ==
    (/\ last.event = "committed"
     /\ last.sawFail = {}
     /\ ~last.mergedSince
     /\ ~last.superseded) =>
        /\ baseStateRef # Null
        /\ EffectPresent(baseStateRef[1], last.effect)
        /\ state.previousState = Null

\* C22: after a user mutation is applied locally, a remote call for it is in
\* flight when the client is online, and an item for it is in the operation
\* queue when it is offline
C22_MutationGoesThroughCoordinator ==
    /\ last.event = "queued" =>
          \E k \in DOMAIN getSyncQueue(stored) :
              /\ getSyncQueue(stored)[k].id = last.itemId
              /\ getSyncQueue(stored)[k].action = last.action
    /\ last.event = "modal" =>
          IF last.online
          THEN \E i \in (DOMAIN ops) \ last.callsBefore :
                   ops[i].action = last.action
          ELSE \E k \in DOMAIN getSyncQueue(stored) :
                   /\ getSyncQueue(stored)[k].action = last.action
                   /\ getSyncQueue(stored)[k].id
                         \notin Ids(last.queueBefore)

\* the number of elements of an array that have the id
CountOf(arr, id) == Cardinality({i \in DOMAIN arr : arr[i].id = id})

ReducerRan(type) ==
    last.event = "reducer" /\ last.action.type = type /\ ~last.threw

\* C23: no evaluation of boardReducer throws, whatever the mutation and its
\* payload are, a card mutation that names a list id without an entry in
\* cards included
C23_ReducerNeverThrows == last.event = "reducer" => ~last.threw

\* C24: MOVE_CARD between two different lists takes the card out of the
\* source list and puts it once into the destination list at
\* destinationIndex, leaves every other card in its list and order and the
\* number of cards as it was; without the card in the source list the state
\* is the state before
C24_MoveBetweenLists ==
    (/\ ReducerRan("MOVE_CARD")
     /\ last.action.payload.sourceListId
          # last.action.payload.destinationListId) =>
        LET p == last.action.payload
            before == last.before.cards
            after == state.cards
        IN  IF p.cardId \notin Ids(before[p.sourceListId])
            THEN state = last.before
            ELSE /\ CountOf(after[p.sourceListId], p.cardId) = 0
                 /\ CountOf(after[p.destinationListId], p.cardId) = 1
                 /\ after[p.destinationListId][p.destinationIndex + 1].id
                      = p.cardId
                 /\ DOMAIN after = DOMAIN before
                 /\ \A lid \in DOMAIN before :
                      RemoveById(after[lid], p.cardId)
                        = RemoveById(before[lid], p.cardId)
                 /\ TotalCards(after) = TotalCards(before)

\* C25: MOVE_CARD within one list leaves the list with the length and the
\* cards it had, and the moved card at destinationIndex
C25_MoveWithinList ==
    (/\ ReducerRan("MOVE_CARD")
     /\ last.action.payload.sourceListId
          = last.action.payload.destinationListId
     /\ last.action.payload.cardId
          \in Ids(last.before.cards[last.action.payload.sourceListId])
     /\ last.action.payload.destinationIndex
          < Len(last.before.cards[last.action.payload.sourceListId])) =>
        LET p == last.action.payload
            before == last.before.cards[p.sourceListId]
            after == state.cards[p.sourceListId]
        IN  /\ Len(after) = Len(before)
            /\ \A id \in Ids(before) \cup Ids(after) :
                  CountOf(after, id) = CountOf(before, id)
            /\ after[p.destinationIndex + 1].id = p.cardId

\* C26: in every state reached by reducer mutations from the empty board a
\* card id is in one array, once; a move neither adds nor loses a card
C26_CardInExactlyOneList ==
    /\ \A a, b \in DOMAIN state.cards :
         \A i \in DOMAIN state.cards[a] : \A j \in DOMAIN state.cards[b] :
            state.cards[a][i].id = state.cards[b][j].id => a = b /\ i = j
    /\ (ReducerRan("MOVE_CARD") \/ ReducerRan("REORDER_CARD")) =>
          TotalCards(state.cards) = TotalCards(last.before.cards)

\* the entities a mutation that changes an existing entity is aimed at
TargetsOf(action, doc) ==
    IF action.type = "UPDATE_CARD"
    THEN {v \in VersionsIn(doc) :
            /\ v[1] = "card" /\ v[2] = action.payload.cardId
            /\ v[2] \in Ids(CardsOf(doc.cards, action.payload.listId))}
    ELSE IF action.type \in {"RENAME_LIST", "ARCHIVE_LIST", "RESTORE_LIST"}
    THEN {v \in VersionsIn(doc) :
            v[1] = "list" /\ v[2] = action.payload.listId}
    ELSE {}

\* C27 (as stated): the card at index 0 of a list 1 of 2 cards is moved to
\* index 0 of list 2 and back to index 1 of list 1; list 1 then has its 2
\* cards in the order they had at the start and list 2 is empty
C27_BackInOriginalOrder ==
    (/\ last.event = "back"
     /\ Len(last.start.cards[1]) = 2
     /\ last.from = 0
     /\ last.to = 1) =>
        /\ state.cards[1] = last.start.cards[1]
        /\ state.cards[2] = <<>>

\* C27 (amended): after a card of list 1 is moved to index 0 of list 2 and
\* back to an index of list 1, list 2 is empty again, list 1 has the cards
\* it had, the moved card is at the index it was moved back to and the
\* other cards are in the order they had; list 1 is as it was at the start
\* exactly when that index is the one the card came from
C27_BackAtDestinationIndex ==
    last.event = "back" =>
        LET before == last.start.cards[1]
            after == state.cards[1]
        IN  /\ state.cards[2] = <<>>
            /\ Len(after) = Len(before)
            /\ after[last.to + 1] = before[last.from + 1]
            /\ after[last.to + 1].id = last.cardId
            /\ RemoveById(after, last.cardId)
                 = RemoveById(before, last.cardId)
            /\ (after = before) <=> (last.to = last.from)

\* the card at index 0 of a list of 2 cards went to list 2 and back to
\* index 1, and is now behind the card that was behind it
C27_Witness ==
    /\ last.event = "back"
    /\ Len(last.start.cards[1]) = 2
    /\ last.from = 0
    /\ last.to = 1
    /\ state.cards[1]
         = <<last.start.cards[1][2], last.start.cards[1][1]>>

\* C28: a rename, archive or restore of a list and an update of a card add
\* exactly 1 to the version of the entity they are aimed at and leave every
\* other version as it was; no mutation makes a version smaller or makes it
\* skip a value
C28_VersionStepsByOne ==
    (last.event = "reducer" /\ ~last.threw) =>
        LET targets == TargetsOf(last.action, last.before)
            others == VersionsIn(last.before) \ targets
        IN  /\ \A v \in targets :
                  <<v[1], v[2], v[3] + 1>> \in VersionsIn(state)
                  /\ v \notin VersionsIn(state)
            /\ \A v \in others :
                  \A w \in VersionsIn(state) :
                      (w[1] = v[1] /\ w[2] = v[2]) => w[3] = v[3]

\* a card of a board with another entity on it has been updated
C28_Witness ==
    /\ ReducerRan("UPDATE_CARD")
    /\ TargetsOf(last.action, last.before) # {}
    /\ VersionsIn(last.before) \ TargetsOf(last.action, last.before) # {}
    /\ \E v \in VersionsIn(state) : v[1] = "card" /\ v[3] = 2

\* the call that ran last, if the callbacks ran since the hook was mounted
LastCall == last.calls[Len(last.calls)]

\* pushState ran last, did not return early, and (rendered = TRUE) React
\* has rendered since or (rendered = FALSE) has not yet
PushedLast(renderedSince) ==
    /\ last.event = "useUndoRedo"
    /\ last.rendered = renderedSince
    /\ last.calls # <<>>
    /\ LastCall.op = "pushState"
    /\ ~LastCall.suppressed

\* C29: after a pushState(s) that found isNavigatingRef.current false, the
\* entries that were behind the pointer are gone from the history, s is the
\* last entry and the pointer is on it; once rendered, currentState is s
\* and canRedo is false
C29_PushDiscardsRedoBranch ==
    PushedLast(TRUE) =>
        /\ rendered.currentState = LastCall.state
        /\ ~canRedo(rendered)
        /\ currentIndex = Len(history) - 1
        /\ history[Len(history)].state = LastCall.state
        /\ \A k \in DOMAIN LastCall.history :
              k > LastCall.currentIndex + 1 =>
                \A j \in DOMAIN history :
                    history[j].state # LastCall.history[k].state

\* C30: the history never has more than maxHistorySize entries; when the
\* entries pushState keeps and the new one are more than maxHistorySize the
\* oldest of them is dropped, and the pointer is on the new entry, the last
\* one, and not past maxHistorySize - 1
C30_HistoryWithinCapacity ==
    /\ Len(history) <= maxHistorySize
    /\ (/\ PushedLast(FALSE)
        /\ Len(Slice(LastCall.history, rendered.currentIndex + 1)) + 1
              > maxHistorySize) =>
          /\ history = Tail(Append(Slice(LastCall.history,
                                         rendered.currentIndex + 1),
                                   [state |-> LastCall.state]))
          /\ currentIndex = Len(history) - 1
          /\ currentIndex <= maxHistorySize - 1
          /\ history[currentIndex + 1].state = LastCall.state

\* a push onto a full history of more than one entry has dropped the oldest
C30_Witness ==
    /\ PushedLast(FALSE)
    /\ maxHistorySize > 1
    /\ Len(LastCall.history) = maxHistorySize
    /\ Len(history) = maxHistorySize
    /\ history[1] = LastCall.history[2]
    /\ history[Len(history)].state = LastCall.state

\* the undo that took effect right before the call that ran last: in the
\* same event, or as the last call of the event before
PrecedingUndo ==
    IF Len(last.calls) > 1
    THEN LET c == last.calls[Len(last.calls) - 1]
         IN  IF c.op = "undo" /\ c.acted THEN <<c>> ELSE <<>>
    ELSE last.previous

\* a call of op ran last and React has not rendered since
RanLast(op) ==
    /\ last.event = "useUndoRedo"
    /\ ~last.rendered
    /\ last.calls # <<>>
    /\ LastCall.op = op

\* C31: after an undo() that found canUndo true and the redo() that follows
\* it the pointer, the entries and, once rendered, currentState are what
\* they were before the undo(); undo() with the pointer at 0 and redo() with
\* the pointer at the last entry leave pointer and entries as they are and
\* return the current state
C31_UndoRedoIsIdentity ==
    /\ (/\ last.event = "useUndoRedo"
        /\ last.rendered
        /\ last.calls # <<>>
        /\ LastCall.op = "redo"
        /\ PrecedingUndo # <<>>) =>
          LET u == PrecedingUndo[1]
          IN  /\ currentIndex = u.currentIndex
              /\ history = u.history
              /\ rendered.currentState
                   = EntryState(u.history, u.currentIndex, initialSnapshot)
    /\ (RanLast("undo") /\ LastCall.currentIndex = 0) =>
          /\ currentIndex = 0
          /\ history = LastCall.history
          /\ LastCall.returned = rendered.currentState
    /\ (/\ RanLast("redo")
        /\ LastCall.currentIndex = Len(LastCall.history) - 1) =>
          /\ currentIndex = LastCall.currentIndex
          /\ history = LastCall.history
          /\ LastCall.returned = rendered.currentState

\* C32: a pushState that the event of an undo, redo or jumpToIndex makes
\* right after that call returns early and leaves entries and pointer as
\* they are; a pushState that is the first call of a later event is
\* recorded
C32_FlagSuppressesSideEffectsOnly ==
    RanLast("pushState") =>
        IF Len(last.calls) > 1
        THEN LET c == last.calls[Len(last.calls) - 1]
             IN  (c.op \in {"undo", "redo", "jumpToIndex"} /\ c.acted) =>
                    /\ LastCall.suppressed
                    /\ history = LastCall.history
                    /\ currentIndex = LastCall.currentIndex
        ELSE /\ ~LastCall.suppressed
             /\ history # <<>>
             /\ history[Len(history)].state = LastCall.state

\* C35: whenever React has rendered the hook the pointer is an index of
\* the history and currentState is the state of the entry it points at,
\* also after two pushState calls of one event
C35_PointerInsideHistory ==
    (last.event = "useUndoRedo" /\ last.rendered) =>
        /\ 0 <= currentIndex
        /\ currentIndex < Len(history)
        /\ rendered.currentState
             = EntryState(history, currentIndex, initialSnapshot)
        /\ currentIndex + 1 \in DOMAIN history

\* C33: when GET /api/board of a sync cycle fails nothing is dispatched:
\* the state (lists, cards, conflicts, syncing and all), the base snapshot
\* and the stored queue are what they were, so the guard of the next
\* performSync() decides as it would have without the failed cycle
C33_FailedFetchChangesNothing ==
    last.event = "syncFailed" =>
        /\ state = last.before.state
        /\ baseStateRef = last.before.baseStateRef
        /\ stored = last.before.stored
        /\ SyncSkipped(state) = SyncSkipped(last.before.state)

\* the fetch of a cycle failed while the document had a list, and the
\* guard of performSync lets the next call through
C33_Witness ==
    /\ last.event = "syncFailed"
    /\ state.lists # <<>>
    /\ ~SyncSkipped(state)

\* C38: when no dispatchWithOptimistic call and no sync cycle is waiting
\* for an answer syncing is false; otherwise every later performSync()
\* returns at its guard and syncing stays set
C38_SyncingClearedWhenIdle ==
    (ops = <<>> /\ cycles = <<>>) => ~Truthy(Get(state, "syncing"))

\* C39: every list and every card of the document mergeBoardState returns
\* has an id that the local document has: a list or card that is on the
\* server only, in base or not, is not in the merged document
C39_MergedIdsAreLocal ==
    last.event = "mergeBoardState" =>
        /\ IdsOf(Entries(last.out.merged.lists))
              \subseteq IdsOf(Entries(last.local.lists))
        /\ IdsOf(AllCards(last.out.merged)) \subseteq IdsOf(AllCards(last.local))

\* a merge with two cards that are on the server only, one of them in base
\* and the other not, into a merged document that keeps the local list
C39_Witness ==
    /\ last.event = "mergeBoardState"
    /\ last.base # Null
    /\ \E c, d \in AllCards(last.server) :
          /\ c.id \in IdsOf(BaseAllCards(last.base))
          /\ d.id \notin IdsOf(BaseAllCards(last.base))
          /\ {c.id, d.id} \cap IdsOf(AllCards(last.local)) = {}
    /\ last.out.merged.lists # <<>>
    /\ AllCards(last.out.merged) = {}

\* the places of the document's card arrays that hold a card of this id
PlacesOf(d, id) ==
    {<<lid, i>> \in UNION {{<<k, j>> : j \in DOMAIN d.cards[k]} : k \in DOMAIN d.cards} :
        d.cards[lid][i].id = id}

\* C40: a card that is in the local and in the server document is in the
\* merged document exactly once, also when the two sides have it in
\* different lists
C40_SharedCardExactlyOnce ==
    last.event = "mergeBoardState" =>
        \A id \in IdsOf(AllCards(last.local)) \cap IdsOf(AllCards(last.server)) :
            Cardinality(PlacesOf(last.out.merged, id)) = 1

\* C37: in every state of the store, also one initialised from the saved
\* record after a reload and one that LOAD_BOARD returned, state.conflicts is
\* there, and no call of performSync throws at its guard
C37_ConflictsAlwaysDefined ==
    /\ Has(state, "conflicts")
    /\ last.event = "performSync" => ~last.threw

\* the list or card of the document that a conflict is about
EntityOf(doc, conflict) ==
    IF conflict.type = "list" THEN FindById(doc.lists, conflict.id)
    ELSE FindById(CardsOf(doc.cards, conflict.listId), conflict.id)

\* the conflicts of the list that are about a list or a card of this id
AboutEntity(conflicts, type, id) ==
    {i \in DOMAIN conflicts : conflicts[i].type = type /\ conflicts[i].id = id}

\* C34: when the resolutions are applied, every list or card under conflict
\* becomes the local entity if the user chose 'local' for its conflict and
\* the server entity otherwise, also when no choice was made for it; the
\* other lists and cards stay as they were; the conflicts list is empty and
\* the guard of performSync lets a cycle start
C34_ResolutionsApplied ==
    last.event = "applyAll" =>
        LET before == last.before
            conflicts == before.conflicts
        IN  /\ \A i \in DOMAIN conflicts :
                  EntityOf(before, conflicts[i]) # <<>> =>
                     EntityOf(state, conflicts[i]) =
                        Some(IF Get(conflicts[i], "resolution") = Some("local")
                             THEN conflicts[i].local ELSE conflicts[i].server)
            /\ \A k \in DOMAIN before.lists :
                  AboutEntity(conflicts, "list", before.lists[k].id) = {}
                     => state.lists[k] = before.lists[k]
            /\ \A lid \in DOMAIN before.cards : \A k \in DOMAIN before.cards[lid] :
                  AboutEntity(conflicts, "card", before.cards[lid][k].id) = {}
                     => state.cards[lid][k] = before.cards[lid][k]
            /\ state.conflicts = <<>>
            /\ ~SyncSkipped(Closure(state))

\* C36: a conflict that the user resolved with 'local' stays resolved: a
\* cycle that is started after the resolutions were applied, and that finds
\* the server document as it was then, does not publish that conflict again
\* (only then can the local value become the value of the remote authority)
C36_LocalChoiceStaysResolved ==
    (/\ last.event = "syncPublished"
     /\ last.applied # Null
     /\ last.applied[1].server = mockBoard) =>
        LET was == last.applied[1].before.conflicts
        IN  \A i \in DOMAIN was :
               Get(was[i], "resolution") = Some("local") =>
                  ~\E j \in DOMAIN state.conflicts :
                       /\ state.conflicts[j].type = was[i].type
                       /\ state.conflicts[j].id = was[i].id
                       /\ state.conflicts[j].local = was[i].local
                       /\ state.conflicts[j].server = was[i].server

====
